---- MODULE Spec2Model ----
(***************************************************************************)
(* Chain parameters of the node: the average target spacing over the       *)
(* proof-of-work algorithms (AvgTargetSpacing), the construction of the    *)
(* genesis block (CreateGenesisBlock) and the per-network parameter sets   *)
(* that build and verify their genesis block.                              *)
(*                                                                         *)
(* Sources: src/src/chainparams.cpp and src/unnamed/part_000 (the kernel   *)
(* version of the same file).                                              *)
(***************************************************************************)
EXTENDS Integers, Sequences, FiniteSets, TLC

(***************************************************************************)
(* Bounds of the model.                                                    *)
(***************************************************************************)
\* largest per-algorithm spacing drawn as an input
MaxSpacing == 8
\* longest algorithm list the accumulation is run over (the code's list has 2)
MaxAlgos == 3
\* largest value drawn for the 32-bit arguments nTime and nNonce
MaxWord == 1
\* longest timestamp message drawn as an input
MaxMsgLen == 1
\* largest number of genesis literals of a build that are wrong
MaxBadLiterals == 1
\* width in bits of the nonce (uint32_t in the code)
NonceBits == 2
\* number of threads that call AvgTargetSpacing concurrently
NumThreads == 2
\* largest spacing of the parameter set the concurrent calls read
MaxConcSpacing == 3

\* the values an int of the consensus parameters holds before its first
\* assignment: 0..MaxUninit, and the two values the constructors assign
MaxUninit == 1

\* the largest number of number fields of a -vbparams entry of the model
MaxVbNumbers == 4

VARIABLES
    \* ---- AvgTargetSpacing ----
    spacings,   \* spacings[i]: what rules->GetTargetSpacing returns for the i-th algorithm
    idx,        \* number of algorithms of the list already processed by the loop
    numer,      \* int64_t numer
    denom,      \* int64_t denom
    avgpc,      \* position in AvgTargetSpacing
    result,     \* the value returned, NoValue while there is none
    \* ---- CreateGenesisBlock ----
    first,      \* the first call of CreateGenesisBlock: caller, arguments, returned block
    second,     \* the second call of CreateGenesisBlock, made after the first
    \* ---- parameter sets ----
    badLiterals,        \* the genesis literals of the build that are not the hash they stand for
    gArgs,              \* the command-line arguments (the global ArgsManager)
    globalChainParams,  \* static std::unique_ptr<const CChainParams> globalChainParams
    baseNetwork,        \* the network selected by SelectBaseParams
    lastCall,           \* the last call made and how it ended
    aborted,            \* whether a failed assertion has ended the process
    queried,            \* the answer of the query the last step made, if it was one
    \* ---- MineGenesisBlock ----
    mineBlock,          \* the block being mined (CBlock& block), none before the call
    minepc,             \* where MineGenesisBlock is
    powValid,           \* the nonces for which checkProofOfWork succeeds
    timesTested,        \* how often checkProofOfWork was called for each nonce (up to 2)
    printed,            \* what was printed after the search
    \* ---- concurrent calls of AvgTargetSpacing ----
    concParams,         \* the parameter set: the spacing of each algorithm at each height
    threads,            \* per thread: the height it was called with, its position, its result
    locals,             \* the storage of numer and denom
    \* ---- the body of a constructor ----
    building,           \* the constructor that is running or has returned, if any
    uninit,             \* what the consensus parameters held when the constructor began
    built,              \* Consensus::Params consensus of the object under construction
    ctorStep,           \* how many of the constructor's assignments have run
    constructed,        \* whether the constructor has returned
    \* ---- one -vbparams entry ----
    vbFields,           \* the colon-separated fields of the entry
    vbBefore,           \* the consensus parameters before the entry is read
    vbResult            \* what the loop body did with the entry, once it has run

avgVars == <<spacings, idx, numer, denom, avgpc, result>>

genVars == <<first, second>>

parVars ==
    <<badLiterals, gArgs, globalChainParams, baseNetwork, lastCall, aborted, queried>>

mineVars == <<mineBlock, minepc, powValid, timesTested, printed>>

concVars == <<concParams, threads, locals>>

ctorVars == <<building, uninit, built, ctorStep, constructed>>

vbVars == <<vbFields, vbBefore, vbResult>>

vars == <<avgVars, genVars, parVars, mineVars, concVars, ctorVars, vbVars>>

\* no value was returned; a returned value v is held as <<v>>
NoValue == <<>>

(***************************************************************************)
(* AvgTargetSpacing (src/src/chainparams.cpp:789-823).                     *)
(*                                                                         *)
(* numer and denom are int64_t; with the spacings of this model every      *)
(* product stays far below 2^63, so the plain integers are exact.          *)
(***************************************************************************)

\* for (const PowAlgo algo : {PowAlgo::SHA256D, PowAlgo::NEOSCRYPT})
PowAlgos == <<"SHA256D", "NEOSCRYPT">>

\* the values a spacing can take in the model: the small ones, and 150
SpacingValues == (1..MaxSpacing) \cup {150}

\* all lists of n spacings
SpacingLists(n) == [1..n -> SpacingValues]

\* int64_t numer = 1;
AvgInitNumer == 1

\* int64_t denom = 0;
AvgInitDenom == 0

\* mutant: the addition of numer comes before the multiplication of denom
AvgLoopBody_AddFirst(acc, spacing) ==
    LET d1 == acc.denom + acc.numer
        d2 == d1 * spacing
        n1 == acc.numer * spacing
    IN  [numer |-> n1, denom |-> d2]

\* mutant: the previously added block counts are not scaled by the new spacing
AvgLoopBody_NoScale(acc, spacing) ==
    LET d2 == acc.denom + acc.numer
        n1 == acc.numer * spacing
    IN  [numer |-> n1, denom |-> d2]

\* mutant: the current algorithm's own term is never added to denom
AvgLoopBody_NoAdd(acc, spacing) ==
    LET d1 == acc.denom * spacing
        n1 == acc.numer * spacing
    IN  [numer |-> n1, denom |-> d1]

\* mutant: numer is multiplied before it is added to denom
AvgLoopBody_NumerFirst(acc, spacing) ==
    LET d1 == acc.denom * spacing
        n1 == acc.numer * spacing
        d2 == d1 + n1
    IN  [numer |-> n1, denom |-> d2]

\* one iteration of the loop: denom *= spacing; denom += numer; numer *= spacing;
AvgLoopBody(acc, spacing) ==
    LET d1 == acc.denom * spacing
        d2 == d1 + acc.numer
        n1 == acc.numer * spacing
    IN  [numer |-> n1, denom |-> d2]

\* entry of AvgTargetSpacing: the locals are initialised, nothing is processed
AvgEntry(sp) ==
    /\ spacings = sp
    /\ idx = 0
    /\ numer = AvgInitNumer
    /\ denom = AvgInitDenom
    /\ avgpc = "loop"
    /\ result = NoValue

\* the loop processes the next algorithm of the list
AvgLoopIter ==
    /\ avgpc = "loop"
    /\ idx < Len(spacings)
    /\ LET spacing == spacings[idx + 1]
           acc == AvgLoopBody([numer |-> numer, denom |-> denom], spacing)
       IN  /\ numer' = acc.numer
           /\ denom' = acc.denom
    /\ idx' = idx + 1
    /\ UNCHANGED <<spacings, avgpc, result>>
    /\ UNCHANGED <<genVars, parVars, mineVars, concVars, ctorVars, vbVars>>

\* the loop ends when the list is exhausted
AvgLoopExit ==
    /\ avgpc = "loop"
    /\ idx = Len(spacings)
    /\ avgpc' = "check_denom"
    /\ UNCHANGED <<spacings, idx, numer, denom, result>>
    /\ UNCHANGED <<genVars, parVars, mineVars, concVars, ctorVars, vbVars>>

\* assert (denom > 0);
AvgCheckDenom ==
    /\ avgpc = "check_denom"
    /\ avgpc' = IF denom > 0 THEN "check_exact" ELSE "abort_denom"
    /\ UNCHANGED <<spacings, idx, numer, denom, result>>
    /\ UNCHANGED <<genVars, parVars, mineVars, concVars, ctorVars, vbVars>>

\* mutant: the exact-division assertion is missing, the quotient is truncated
AvgReturn_NoExactCheck(n, d) ==
    [pc |-> "returned", value |-> <<n \div d>>]

\* assert (numer % denom == 0); return numer / denom;
AvgReturn(n, d) ==
    IF n % d = 0
    THEN [pc |-> "returned", value |-> <<n \div d>>]
    ELSE [pc |-> "abort_exact", value |-> NoValue]

AvgCheckExact ==
    /\ avgpc = "check_exact"
    /\ LET r == AvgReturn(numer, denom)
       IN  /\ avgpc' = r.pc
           /\ result' = r.value
    /\ UNCHANGED <<spacings, idx, numer, denom>>
    /\ UNCHANGED <<genVars, parVars, mineVars, concVars, ctorVars, vbVars>>

\* the accumulation of the whole loop over a list, from (numer, denom)
RECURSIVE AvgAccumulate(_, _)
AvgAccumulate(acc, sp) ==
    IF sp = <<>> THEN acc ELSE AvgAccumulate(AvgLoopBody(acc, Head(sp)), Tail(sp))

\* AvgTargetSpacing run from entry to its end over the list sp
AvgTargetSpacingOf(sp) ==
    LET acc == AvgAccumulate([numer |-> AvgInitNumer, denom |-> AvgInitDenom], sp)
        r == IF acc.denom > 0
             THEN AvgReturn(acc.numer, acc.denom)
             ELSE [pc |-> "abort_denom", value |-> NoValue]
    IN  [numer |-> acc.numer, denom |-> acc.denom, pc |-> r.pc, value |-> r.value]

AvgTerminal == avgpc \in {"returned", "abort_denom", "abort_exact"}

(***************************************************************************)
(* Hashes.  A hash is modelled by what it is computed over, so two hashes   *)
(* are equal exactly when their preimages are (no collisions).             *)
(***************************************************************************)
Hash(kind, pre) == [kind |-> kind, pre |-> pre]

\* the null (all-zero) uint256
NullHash == Hash("null", <<>>)

\* CTransaction::GetHash: covers the whole serialized transaction
TxHash(tx) == Hash("tx", <<tx.nVersion, tx.vin, tx.vout, tx.nLockTime>>)

\* one level of the merkle tree: neighbours are hashed in pairs, the last
\* hash is paired with itself when the level has an odd number of hashes
MerkleLevel(hashes) ==
    [i \in 1..((Len(hashes) + 1) \div 2) |->
        Hash("node", <<hashes[2 * i - 1],
                       IF 2 * i <= Len(hashes) THEN hashes[2 * i] ELSE hashes[2 * i - 1]>>)]

\* ComputeMerkleRoot: the root of no hash is null, the root of one hash is that hash
RECURSIVE ComputeMerkleRoot(_)
ComputeMerkleRoot(hashes) ==
    IF Len(hashes) = 0 THEN NullHash
    ELSE IF Len(hashes) = 1 THEN hashes[1]
    ELSE ComputeMerkleRoot(MerkleLevel(hashes))

\* BlockMerkleRoot: the merkle root over the hashes of the block's transactions
BlockMerkleRoot(block) ==
    ComputeMerkleRoot([i \in 1..Len(block.vtx) |-> TxHash(block.vtx[i])])

\* CPureBlockHeader::GetHash: the hash of the serialized pure header; the
\* attached PoW data is no part of it
GetHash(header) ==
    Hash("header", <<header.nVersion, header.hashPrevBlock, header.hashMerkleRoot,
                     header.nTime, header.nBits, header.nNonce>>)

(***************************************************************************)
(* CreateGenesisBlock (src/src/chainparams.cpp:72-125, the same code at    *)
(* src/unnamed/part_000:91-144).                                           *)
(***************************************************************************)

\* the bytes of the hex string "2b6defe41aa3aa47795b702c893c73e716d485ab"
hexPremineAddressRegtest ==
    <<43, 109, 239, 228, 26, 163, 170, 71, 121, 91,
      112, 44, 137, 60, 115, 231, 22, 212, 133, 171>>

\* the bytes of the hex string "8cb1c236d34c74221fe4163bbba739b52e95f484"
hexPremineAddressMainnet ==
    <<140, 177, 194, 54, 211, 76, 116, 34, 31, 228,
      22, 59, 187, 167, 57, 181, 46, 149, 244, 132>>

\* constexpr CAmount premineAmount = 222222222 * COIN, in units of COIN
premineAmount == 222222222

\* mutant: the bytes are rotated by one place instead of reversed
Reverse_Rotate(s) == [i \in 1..Len(s) |-> s[(i % Len(s)) + 1]]

\* std::reverse
Reverse(s) == [i \in 1..Len(s) |-> s[Len(s) + 1 - i]]

\* uint160S: the value whose hex form is the given string; its bytes, from
\* begin() to end(), are those of the string in reverse order
uint160S(hex) == Reverse(hex)

\* CScript() << opcode
ScriptOp(opcode) == [op |-> opcode, data |-> <<>>]

\* CScript() << std::vector<unsigned char>: a push of the bytes
ScriptPush(bytes) == [op |-> "PUSH", data |-> bytes]

\* txNew.vin.resize(1): a default CTxIn
DefaultTxIn ==
    [prevout |-> [hash |-> NullHash, n |-> "NULL_INDEX"],
     scriptSig |-> <<>>,
     nSequence |-> "SEQUENCE_FINAL"]

\* txNew.vout.resize(1): a default CTxOut
DefaultTxOut == [nValue |-> -1, scriptPubKey |-> <<>>]

\* CBlock genesis: a default-constructed block
DefaultBlock ==
    [nVersion |-> 0, hashPrevBlock |-> NullHash, hashMerkleRoot |-> NullHash,
     nTime |-> 0, nBits |-> 0, nNonce |-> 0, vtx |-> <<>>,
     pow |-> [coreAlgo |-> "INVALID", nBits |-> 0, fakeHeader |-> <<>>]]

\* new CPureBlockHeader (): a null header
DefaultPureHeader ==
    [nVersion |-> 0, hashPrevBlock |-> NullHash, hashMerkleRoot |-> NullHash,
     nTime |-> 0, nBits |-> 0, nNonce |-> 0]

\* mutant: the input script is never assigned
GenesisTx_NoScriptSig(genesisInputScript, genesisOutputScript, genesisReward) ==
    LET vout0 == [DefaultTxOut EXCEPT !.nValue = genesisReward,
                                      !.scriptPubKey = genesisOutputScript]
    IN  [nVersion |-> 1, vin |-> <<DefaultTxIn>>, vout |-> <<vout0>>, nLockTime |-> 0]

\* the generation transaction built at the head of CreateGenesisBlock
GenesisTx(genesisInputScript, genesisOutputScript, genesisReward) ==
    LET vin0 == [DefaultTxIn EXCEPT !.scriptSig = genesisInputScript]
        vout0 == [DefaultTxOut EXCEPT !.nValue = genesisReward,
                                      !.scriptPubKey = genesisOutputScript]
    IN  [nVersion |-> 1, vin |-> <<vin0>>, vout |-> <<vout0>>, nLockTime |-> 0]

\* mutant: the fake header commits to the merkle root instead of the block hash
CreateGenesisBlockFromScripts_CommitsRoot(genesisInputScript, genesisOutputScript, nTime, nNonce, nBits, nVersion, genesisReward) ==
    LET txNew == GenesisTx(genesisInputScript, genesisOutputScript, genesisReward)
        g1 == [DefaultBlock EXCEPT !.nTime = nTime, !.nBits = 0, !.nNonce = 0,
                                   !.nVersion = nVersion]
        g2 == [g1 EXCEPT !.vtx = Append(g1.vtx, txNew)]
        g3 == [g2 EXCEPT !.hashPrevBlock = NullHash]
        g4 == [g3 EXCEPT !.hashMerkleRoot = BlockMerkleRoot(g3)]
        fakeHeader == [DefaultPureHeader EXCEPT !.nNonce = nNonce,
                                                !.hashMerkleRoot = g4.hashMerkleRoot]
    IN  [g4 EXCEPT !.pow = [coreAlgo |-> "NEOSCRYPT", nBits |-> nBits,
                            fakeHeader |-> <<fakeHeader>>]]

\* mutant: the merkle root is computed before the transaction is added
CreateGenesisBlockFromScripts_RootBeforeTx(genesisInputScript, genesisOutputScript, nTime, nNonce, nBits, nVersion, genesisReward) ==
    LET txNew == GenesisTx(genesisInputScript, genesisOutputScript, genesisReward)
        g1 == [DefaultBlock EXCEPT !.nTime = nTime, !.nBits = 0, !.nNonce = 0,
                                   !.nVersion = nVersion]
        g2 == [g1 EXCEPT !.hashMerkleRoot = BlockMerkleRoot(g1)]
        g3 == [g2 EXCEPT !.vtx = Append(g2.vtx, txNew)]
        g4 == [g3 EXCEPT !.hashPrevBlock = NullHash]
        fakeHeader == [DefaultPureHeader EXCEPT !.nNonce = nNonce,
                                                !.hashMerkleRoot = GetHash(g4)]
    IN  [g4 EXCEPT !.pow = [coreAlgo |-> "NEOSCRYPT", nBits |-> nBits,
                            fakeHeader |-> <<fakeHeader>>]]

\* mutant: bits and nonce are written to the block header as in a block
\* without attached PoW data
CreateGenesisBlockFromScripts_HeaderCarriesPow(genesisInputScript, genesisOutputScript, nTime, nNonce, nBits, nVersion, genesisReward) ==
    LET txNew == GenesisTx(genesisInputScript, genesisOutputScript, genesisReward)
        g1 == [DefaultBlock EXCEPT !.nTime = nTime, !.nBits = nBits, !.nNonce = nNonce,
                                   !.nVersion = nVersion]
        g2 == [g1 EXCEPT !.vtx = Append(g1.vtx, txNew)]
        g3 == [g2 EXCEPT !.hashPrevBlock = NullHash]
        g4 == [g3 EXCEPT !.hashMerkleRoot = BlockMerkleRoot(g3)]
        fakeHeader == [DefaultPureHeader EXCEPT !.nNonce = nNonce,
                                                !.hashMerkleRoot = GetHash(g4)]
    IN  [g4 EXCEPT !.pow = [coreAlgo |-> "NEOSCRYPT", nBits |-> nBits,
                            fakeHeader |-> <<fakeHeader>>]]

\* CBlock CreateGenesisBlock(const CScript& genesisInputScript,
\*     const CScript& genesisOutputScript, uint32_t nTime, uint32_t nNonce,
\*     uint32_t nBits, int32_t nVersion, const CAmount& genesisReward)
CreateGenesisBlockFromScripts(genesisInputScript, genesisOutputScript, nTime, nNonce, nBits, nVersion, genesisReward) ==
    LET txNew == GenesisTx(genesisInputScript, genesisOutputScript, genesisReward)
        \* genesis.nTime = nTime; nBits = 0; nNonce = 0; nVersion = nVersion;
        g1 == [DefaultBlock EXCEPT !.nTime = nTime, !.nBits = 0, !.nNonce = 0,
                                   !.nVersion = nVersion]
        \* genesis.vtx.push_back(MakeTransactionRef(std::move(txNew)));
        g2 == [g1 EXCEPT !.vtx = Append(g1.vtx, txNew)]
        \* genesis.hashPrevBlock.SetNull();
        g3 == [g2 EXCEPT !.hashPrevBlock = NullHash]
        \* genesis.hashMerkleRoot = BlockMerkleRoot(genesis);
        g4 == [g3 EXCEPT !.hashMerkleRoot = BlockMerkleRoot(g3)]
        \* fakeHeader->nNonce = nNonce; fakeHeader->hashMerkleRoot = genesis.GetHash ();
        fakeHeader == [DefaultPureHeader EXCEPT !.nNonce = nNonce,
                                                !.hashMerkleRoot = GetHash(g4)]
        \* genesis.pow.setCoreAlgo, setBits, setFakeHeader
    IN  [g4 EXCEPT !.pow = [coreAlgo |-> "NEOSCRYPT", nBits |-> nBits,
                            fakeHeader |-> <<fakeHeader>>]]

\* mutant: the block is a static object reused by every call, so the
\* transactions of the earlier call are still in it
CreateGenesisBlock_StaticBlock(nTime, nNonce, nBits, timestamp, premineP2sh) ==
    LET b == CreateGenesisBlockFromScripts(
                 <<ScriptPush(timestamp)>>,
                 <<ScriptOp("OP_HASH160"), ScriptPush(Reverse(premineP2sh)),
                   ScriptOp("OP_EQUAL")>>,
                 nTime, nNonce, nBits, 1, premineAmount)
        earlier == IF first = <<>> THEN <<>> ELSE first[1].block.vtx
        g == [b EXCEPT !.vtx = earlier \o b.vtx]
    IN  [g EXCEPT !.hashMerkleRoot = BlockMerkleRoot(g)]

\* mutant: the premine hash is left out of the output script
CreateGenesisBlock_NoScriptHash(nTime, nNonce, nBits, timestamp, premineP2sh) ==
    CreateGenesisBlockFromScripts(
        <<ScriptPush(timestamp)>>,
        <<ScriptOp("OP_HASH160"), ScriptOp("OP_EQUAL")>>,
        nTime, nNonce, nBits, 1, premineAmount)

\* mutant: the premine hash is pushed as it is stored, without std::reverse
CreateGenesisBlock_NoReverse(nTime, nNonce, nBits, timestamp, premineP2sh) ==
    CreateGenesisBlockFromScripts(
        <<ScriptPush(timestamp)>>,
        <<ScriptOp("OP_HASH160"), ScriptPush(premineP2sh), ScriptOp("OP_EQUAL")>>,
        nTime, nNonce, nBits, 1, premineAmount)

\* CBlock CreateGenesisBlock (const uint32_t nTime, const uint32_t nNonce,
\*     const uint32_t nBits, const std::string& timestamp, const uint160& premineP2sh)
CreateGenesisBlock(nTime, nNonce, nBits, timestamp, premineP2sh) ==
    LET timestampData == timestamp
        genesisInput == <<ScriptPush(timestampData)>>
        scriptHash == Reverse(premineP2sh)
        genesisOutput == <<ScriptOp("OP_HASH160"), ScriptPush(scriptHash),
                           ScriptOp("OP_EQUAL")>>
        nVersion == 1
    IN  CreateGenesisBlockFromScripts(genesisInput, genesisOutput, nTime, nNonce,
                                      nBits, nVersion, premineAmount)

(***************************************************************************)
(* Calls of CreateGenesisBlock.  The arguments are drawn from small sets;   *)
(* two calls are kept so that they can be compared.                        *)
(***************************************************************************)

\* the values drawn for nTime and nNonce
WordValues == 0..MaxWord

\* 0x1e0ffff0, the bits of the genesis blocks of main, test and signet
GenesisBitsMain == 504365040

\* 0x207fffff, the bits of the regtest genesis block
GenesisBitsRegtest == 545259519

\* the values drawn for nBits
BitsValues == {GenesisBitsMain, GenesisBitsRegtest}

\* the characters the drawn messages are made of ('D' and 'F')
MsgChars == {68, 70}

\* the timestamp messages drawn: every string of at most MaxMsgLen characters
MsgValues == UNION {[1..n -> MsgChars] : n \in 0..MaxMsgLen}

\* the premine hashes drawn
PremineHashes == {uint160S(hexPremineAddressMainnet), uint160S(hexPremineAddressRegtest)}

\* the argument lists drawn for CreateGenesisBlock
GenesisArgs ==
    [nTime : WordValues, nNonce : WordValues, nBits : BitsValues,
     timestamp : MsgValues, premineP2sh : PremineHashes]

\* the constructors the drawn calls are made from
GenesisCallers == {"CMainParams", "CRegTestParams"}

\* no call has been made
NoCall == <<>>

\* a call of CreateGenesisBlock with arguments a, made by caller
CallCreateGenesisBlock(caller, a) ==
    LET call == [caller |-> caller, args |-> a,
                 block |-> CreateGenesisBlock(a.nTime, a.nNonce, a.nBits,
                                              a.timestamp, a.premineP2sh)]
    IN  /\ second = NoCall
        /\ IF first = NoCall
           THEN first' = <<call>> /\ second' = second
           ELSE second' = <<call>> /\ first' = first
        /\ UNCHANGED <<avgVars, parVars, mineVars, concVars, ctorVars, vbVars>>

(***************************************************************************)
(* The genesis block of each parameter set and its literal constants       *)
(* (the constructors of src/src/chainparams.cpp and src/unnamed/part_000). *)
(***************************************************************************)

\* "Decentralised Autonomous Worlds"
pszTimestampTestnet ==
    <<68, 101, 99, 101, 110, 116, 114, 97, 108, 105, 115, 101, 100, 32, 65, 117,
      116, 111, 110, 111, 109, 111, 117, 115, 32, 87, 111, 114, 108, 100, 115>>

\* "Forbes, 16.01.2022 10:59am EST: Amazon's The Expanse Finale Packed 30
\* Easter Eggs Into One Shot" (src/src/chainparams.cpp)
pszTimestampMainnet ==
    <<70, 111, 114, 98, 101, 115, 44, 32, 49, 54, 46, 48, 49, 46, 50, 48,
      50, 50, 32, 49, 48, 58, 53, 57, 97, 109, 32, 69, 83, 84, 58, 32,
      65, 109, 97, 122, 111, 110, 39, 115, 32, 84, 104, 101, 32, 69, 120, 112,
      97, 110, 115, 101, 32, 70, 105, 110, 97, 108, 101, 32, 80, 97, 99, 107,
      101, 100, 32, 51, 48, 32, 69, 97, 115, 116, 101, 114, 32, 69, 103, 103,
      115, 32, 73, 110, 116, 111, 32, 79, 110, 101, 32, 83, 104, 111, 116>>

\* "HUC #2,351,800: 8730ea650d24cd01692a5adb943e7b8720b0ba8a4c64ffcdf5a95d9b3fb57b7f"
\* (pszTimestampMainnet of src/unnamed/part_000)
pszTimestampMainnetKernel ==
    <<72, 85, 67, 32, 35, 50, 44, 51, 53, 49, 44, 56, 48, 48, 58, 32,
      56, 55, 51, 48, 101, 97, 54, 53, 48, 100, 50, 52, 99, 100, 48, 49,
      54, 57, 50, 97, 53, 97, 100, 98, 57, 52, 51, 101, 55, 98, 56, 55,
      50, 48, 98, 48, 98, 97, 56, 97, 52, 99, 54, 52, 102, 102, 99, 100,
      102, 53, 97, 57, 53, 100, 57, 98, 51, 102, 98, 53, 55, 98, 55, 102>>

\* the constructors of src/src/chainparams.cpp
ChainparamsCtors == {"CMainParams", "CTestNetParams", "SigNetParams", "CRegTestParams"}

\* the constructors of src/unnamed/part_000
KernelCtors ==
    {"kernel::CMainParams", "kernel::CTestNetParams", "kernel::CTestNet4Params",
     "kernel::SigNetParams", "kernel::CRegTestParams"}

Ctors == ChainparamsCtors \cup KernelCtors

\* the arguments each constructor gives to CreateGenesisBlock
CtorGenesisArgs(ctor) ==
    CASE ctor = "CMainParams" ->
            [nTime |-> 1644842296, nNonce |-> 1060746, nBits |-> GenesisBitsMain,
             timestamp |-> pszTimestampMainnet,
             premineP2sh |-> uint160S(hexPremineAddressMainnet)]
      [] ctor = "CTestNetParams" ->
            [nTime |-> 1644842810, nNonce |-> 2413255, nBits |-> GenesisBitsMain,
             timestamp |-> pszTimestampTestnet,
             premineP2sh |-> uint160S(hexPremineAddressMainnet)]
      [] ctor = "SigNetParams" ->
            [nTime |-> 1644844006, nNonce |-> 1180459, nBits |-> GenesisBitsMain,
             timestamp |-> pszTimestampTestnet,
             premineP2sh |-> uint160S(hexPremineAddressMainnet)]
      [] ctor = "CRegTestParams" ->
            [nTime |-> 1644844584, nNonce |-> 0, nBits |-> GenesisBitsRegtest,
             timestamp |-> pszTimestampTestnet,
             premineP2sh |-> uint160S(hexPremineAddressRegtest)]
      [] ctor = "kernel::CMainParams" ->
            [nTime |-> 1531470713, nNonce |-> 482087, nBits |-> GenesisBitsMain,
             timestamp |-> pszTimestampMainnetKernel,
             premineP2sh |-> uint160S(hexPremineAddressMainnet)]
      [] ctor = "kernel::CTestNetParams" ->
            [nTime |-> 1530623291, nNonce |-> 343829, nBits |-> GenesisBitsMain,
             timestamp |-> pszTimestampTestnet,
             premineP2sh |-> uint160S(hexPremineAddressMainnet)]
      [] ctor = "kernel::CTestNet4Params" ->
            [nTime |-> 1530623291, nNonce |-> 343829, nBits |-> GenesisBitsMain,
             timestamp |-> pszTimestampTestnet,
             premineP2sh |-> uint160S(hexPremineAddressMainnet)]
      [] ctor = "kernel::SigNetParams" ->
            [nTime |-> 1601286749, nNonce |-> 534547, nBits |-> GenesisBitsMain,
             timestamp |-> pszTimestampTestnet,
             premineP2sh |-> uint160S(hexPremineAddressMainnet)]
      [] ctor = "kernel::CRegTestParams" ->
            [nTime |-> 1300000000, nNonce |-> 0, nBits |-> GenesisBitsRegtest,
             timestamp |-> pszTimestampTestnet,
             premineP2sh |-> uint160S(hexPremineAddressRegtest)]

\* the literal constants each constructor compares its genesis block with
GenesisLiteralHex(ctor) ==
    CASE ctor = "CMainParams" ->
            [hash |-> "9d6f82b53bfede0326360cbaba23304b665e0723e3a26cf893f516e636cca77e",
             merkle |-> "3ce4aea0ffd7ba7459b77620fda2a5231e203239bf83281879d82f7a179f44b5"]
      [] ctor = "CTestNetParams" ->
            [hash |-> "daf586063c96731020b95b4051330e1d6476228bcd5e98122fd741e280e3a77d",
             merkle |-> "59d1a23342282179e810dff9238a97d07bd8602e3a1ba0efb5f519008541f257"]
      [] ctor = "SigNetParams" ->
            [hash |-> "a8953af315a2dea0bc116bdd85d000f6b4e0d58f2718f393c54219b26d62e555",
             merkle |-> "59d1a23342282179e810dff9238a97d07bd8602e3a1ba0efb5f519008541f257"]
      [] ctor = "CRegTestParams" ->
            [hash |-> "a07860306f0d4e24c7d80070630ab70499047965f140e6f17efb9e9620b0d18e",
             merkle |-> "9f96a4c275320aaf6386652444be5baade11e2f9f40221a98b968ae5c32dd55a"]
      [] ctor = "kernel::CMainParams" ->
            [hash |-> "e5062d76e5f50c42f493826ac9920b63a8def2626fd70a5cec707ec47a4c4651",
             merkle |-> "0827901b75ab43978c3cf20a78baf040faeb0e2eeff3a2c58ab6521a6d46f8fd"]
      [] ctor = "kernel::CTestNetParams" ->
            [hash |-> "5195fc01d0e23d70d1f929f21ec55f47e1c6ea1e66fae98ee44cbbc994509bba",
             merkle |-> "59d1a23342282179e810dff9238a97d07bd8602e3a1ba0efb5f519008541f257"]
      [] ctor = "kernel::CTestNet4Params" ->
            [hash |-> "5195fc01d0e23d70d1f929f21ec55f47e1c6ea1e66fae98ee44cbbc994509bba",
             merkle |-> "59d1a23342282179e810dff9238a97d07bd8602e3a1ba0efb5f519008541f257"]
      [] ctor = "kernel::SigNetParams" ->
            [hash |-> "8d5223e215a03970bb3d3bc511a0d9a003e03cbc973289611ca6e0e617f57ccf",
             merkle |-> "59d1a23342282179e810dff9238a97d07bd8602e3a1ba0efb5f519008541f257"]
      [] ctor = "kernel::CRegTestParams" ->
            [hash |-> "6f750b36d22f1dc3d0a6e483af45301022646dfc3b3ba2187865f5a7d6d83ab1",
             merkle |-> "9f96a4c275320aaf6386652444be5baade11e2f9f40221a98b968ae5c32dd55a"]

\* the two literals of a constructor
LiteralKinds == {"hash", "merkle"}

\* uint256S("...") / uint256{"..."}: the value of a literal.  Whether the
\* literal is the hash it stands for is a fact of the build, fixed by
\* badLiterals: a good literal is the hash itself (computed), a bad one is
\* some other value.
GenesisLiteral(ctor, kind, computed) ==
    IF <<ctor, kind>> \in badLiterals
    THEN Hash("literal", <<GenesisLiteralHex(ctor)[kind]>>)
    ELSE computed

\* mutant: only the block hash is compared with its literal
CheckGenesisLiterals_HashOnly(ctor, genesis, hashGenesisBlock) ==
    IF hashGenesisBlock # GenesisLiteral(ctor, "hash", GetHash(genesis))
    THEN "hash"
    ELSE "passed"

\* assert(consensus.hashGenesisBlock == uint256S("..."));
\* assert(genesis.hashMerkleRoot == uint256S("..."));
\* the assertion that fails, or "passed"
CheckGenesisLiterals(ctor, genesis, hashGenesisBlock) ==
    IF hashGenesisBlock # GenesisLiteral(ctor, "hash", GetHash(genesis))
    THEN "hash"
    ELSE IF genesis.hashMerkleRoot
              # GenesisLiteral(ctor, "merkle", BlockMerkleRoot(genesis))
         THEN "merkle"
         ELSE "passed"

\* how a constructor, a factory or CreateChainParams ends: with a parameter
\* set, at a failed assertion, or with a std::runtime_error
Returned(obj) == [outcome |-> "returned", obj |-> <<obj>>, at |-> <<"none", "none">>]

Aborted(at) == [outcome |-> "aborted", obj |-> <<>>, at |-> at]

Thrown(at) == [outcome |-> "thrown", obj |-> <<>>, at |-> at]

\* mutant: the constructor mines its genesis block (the search that the
\* constructors carry in a comment), which ends the process when it succeeds
BuildGenesis_Mines(ctor, params) ==
    [outcome |-> "exited", obj |-> <<>>, at |-> <<ctor, "MineGenesisBlock">>]

\* the tail every constructor shares: genesis = CreateGenesisBlock (...);
\* consensus.hashGenesisBlock = genesis.GetHash(); and the two assertions.
\* params holds what the constructor has set before.
BuildGenesis(ctor, params) ==
    LET a == CtorGenesisArgs(ctor)
        genesis == CreateGenesisBlock(a.nTime, a.nNonce, a.nBits, a.timestamp,
                                      a.premineP2sh)
        hashGenesisBlock == GetHash(genesis)
        failed == CheckGenesisLiterals(ctor, genesis, hashGenesisBlock)
    IN  IF failed # "passed"
        THEN Aborted(<<ctor, failed>>)
        ELSE Returned([params EXCEPT !.genesis = <<genesis>>,
                                     !.hashGenesisBlock = hashGenesisBlock])

\* a parameter set under construction: nothing of the genesis is set yet
NewParams(ctor, net) ==
    [ctor |-> ctor, net |-> net, genesis |-> <<>>, hashGenesisBlock |-> NullHash,
     signet_challenge |-> <<>>, regtest |-> <<>>]

(***************************************************************************)
(* Command-line arguments and options, and the constructors that read them *)
(***************************************************************************)

\* std::numeric_limits<int>::max()
INT_MAX == 2147483647

\* Consensus::BIP9Deployment::NO_TIMEOUT is std::numeric_limits<int64_t>::max();
\* the largest integer of the model stands for it
NO_TIMEOUT == 2147483647

\* Consensus::BIP9Deployment::ALWAYS_ACTIVE
ALWAYS_ACTIVE == -1

\* the default signet challenge, as bytes
DefaultSignetChallenge ==
    <<81, 33, 3, 173, 94, 14, 218, 209, 140, 177, 240, 252, 13, 40, 163, 212,
      241, 243, 228, 69, 100, 3, 55, 72, 154, 187, 16, 64, 79, 45, 30, 8,
      107, 228, 48, 33, 3, 89, 239, 80, 33, 150, 79, 226, 45, 111, 142, 5,
      178, 70, 60, 149, 64, 206, 150, 136, 63, 227, 178, 120, 118, 15, 4, 143,
      81, 137, 242, 230, 196, 82, 174>>

\* ParseHex: a string of hexadecimal digits (given as their values) to bytes
RECURSIVE ParseHex(_)
ParseHex(hex) ==
    IF Len(hex) < 2 THEN <<>>
    ELSE <<16 * hex[1] + hex[2]>> \o ParseHex(SubSeq(hex, 3, Len(hex)))

\* the characters '0'..'9'
DigitChars == <<"0", "1", "2", "3", "4", "5", "6", "7", "8", "9">>

IsDigit(c) == \E d \in 1..10 : DigitChars[d] = c

DigitValue(c) == (CHOOSE d \in 1..10 : DigitChars[d] = c) - 1

RECURSIVE DigitsValue(_)
DigitsValue(digits) ==
    IF digits = <<>> THEN 0
    ELSE 10 * DigitsValue(SubSeq(digits, 1, Len(digits) - 1))
         + DigitValue(digits[Len(digits)])

\* ParseInt64 / ParseInt32: a decimal number with an optional minus sign and
\* nothing else; strings of the model are too short to leave either range
ParseInt64(str) ==
    LET neg == Len(str) > 0 /\ str[1] = "-"
        digits == IF neg THEN Tail(str) ELSE str
    IN  IF digits = <<>> \/ \E i \in 1..Len(digits) : ~IsDigit(digits[i])
        THEN [ok |-> FALSE, value |-> 0]
        ELSE [ok |-> TRUE,
              value |-> IF neg THEN 0 - DigitsValue(digits) ELSE DigitsValue(digits)]

ParseInt32(str) == ParseInt64(str)

\* boost::split(v, str, boost::is_any_of(":")): the fields between colons
RECURSIVE SplitColon(_)
SplitColon(str) ==
    IF \A i \in 1..Len(str) : str[i] # ":"
    THEN <<str>>
    ELSE LET at == CHOOSE i \in 1..Len(str) :
                       str[i] = ":" /\ \A j \in 1..(i - 1) : str[j] # ":"
         IN  <<SubSeq(str, 1, at - 1)>> \o SplitColon(SubSeq(str, at + 1, Len(str)))

\* VersionBitsDeploymentInfo[j].name, j = DEPLOYMENT_TESTDUMMY, DEPLOYMENT_TAPROOT
VersionBitsDeploymentInfo ==
    <<<<"t", "e", "s", "t", "d", "u", "m", "m", "y">>,
      <<"t", "a", "p", "r", "o", "o", "t">>>>

\* Consensus::MAX_VERSION_BITS_DEPLOYMENTS
MAX_VERSION_BITS_DEPLOYMENTS == Len(VersionBitsDeploymentInfo)

\* mutant: min_activation_height of the deployment is left as it was
UpdateVersionBitsParameters_KeepsMinHeight(consensus, d, nStartTime, nTimeout, min_activation_height) ==
    [consensus EXCEPT !.vDeployments[d].nStartTime = nStartTime,
                      !.vDeployments[d].nTimeout = nTimeout]

\* void UpdateVersionBitsParameters(d, nStartTime, nTimeout, min_activation_height)
UpdateVersionBitsParameters(consensus, d, nStartTime, nTimeout, min_activation_height) ==
    [consensus EXCEPT !.vDeployments[d].nStartTime = nStartTime,
                      !.vDeployments[d].nTimeout = nTimeout,
                      !.vDeployments[d].min_activation_height = min_activation_height]

\* the body of the loop over -vbparams for one value: the consensus
\* parameters after it, or the exception it throws
ApplyVbParam(consensus, strDeployment) ==
    LET vDeploymentParams == SplitColon(strDeployment)
        n == Len(vDeploymentParams)
    IN  IF n < 3 \/ 4 < n
        THEN [thrown |-> "malformed", consensus |-> consensus]
        ELSE
        LET start == ParseInt64(vDeploymentParams[2])
            timeout == ParseInt64(vDeploymentParams[3])
            minh == IF n >= 4 THEN ParseInt32(vDeploymentParams[4])
                    ELSE [ok |-> TRUE, value |-> 0]
            found == {j \in 1..MAX_VERSION_BITS_DEPLOYMENTS :
                          vDeploymentParams[1] = VersionBitsDeploymentInfo[j]}
        IN  IF ~start.ok THEN [thrown |-> "nStartTime", consensus |-> consensus]
            ELSE IF ~timeout.ok THEN [thrown |-> "nTimeout", consensus |-> consensus]
            ELSE IF ~minh.ok
                 THEN [thrown |-> "min_activation_height", consensus |-> consensus]
            ELSE IF found = {} THEN [thrown |-> "deployment", consensus |-> consensus]
            ELSE [thrown |-> "none",
                  consensus |-> UpdateVersionBitsParameters(
                                    consensus, CHOOSE j \in found : TRUE,
                                    start.value, timeout.value, minh.value)]

\* the loop over args.GetArgs("-vbparams"): it stops at the first exception
RECURSIVE ApplyVbParams(_, _)
ApplyVbParams(consensus, values) ==
    IF values = <<>> THEN [thrown |-> "none", consensus |-> consensus]
    ELSE LET r == ApplyVbParam(consensus, Head(values))
         IN  IF r.thrown # "none" THEN r
             ELSE ApplyVbParams(r.consensus, Tail(values))

\* mutant: the upper end of the range is tested with > in place of >=
ActivationHeight_AcceptsIntMax(height) ==
    IF height < -1 \/ height > INT_MAX THEN <<>>
    ELSE IF height = -1 THEN <<INT_MAX>>
    ELSE <<height>>

\* one of the two activation heights of UpdateActivationParametersFromArgs:
\* the height to store, or none when the argument is out of range
ActivationHeight(height) ==
    IF height < -1 \/ height >= INT_MAX THEN <<>>
    ELSE IF height = -1 THEN <<INT_MAX>>
    ELSE <<height>>

\* void CRegTestParams::UpdateActivationParametersFromArgs(const ArgsManager& args)
UpdateActivationParametersFromArgs(consensus, args) ==
    LET bip16 == IF args.bip16height = <<>> THEN <<consensus.BIP16Height>>
                 ELSE ActivationHeight(args.bip16height[1])
        segwit == IF args.segwitheight = <<>> THEN <<consensus.SegwitHeight>>
                  ELSE ActivationHeight(args.segwitheight[1])
    IN  IF bip16 = <<>> THEN [thrown |-> "bip16height", consensus |-> consensus]
        ELSE IF segwit = <<>>
        THEN [thrown |-> "segwitheight",
              consensus |-> [consensus EXCEPT !.BIP16Height = bip16[1]]]
        ELSE ApplyVbParams([consensus EXCEPT !.BIP16Height = bip16[1],
                                             !.SegwitHeight = segwit[1]],
                           args.vbparams)

\* what the regtest constructors set before they read arguments or options
RegTestDefaults ==
    [BIP16Height |-> 0, SegwitHeight |-> 0,
     vDeployments |->
        <<[bit |-> 28, nStartTime |-> 0, nTimeout |-> NO_TIMEOUT,
           min_activation_height |-> 0],
          [bit |-> 2, nStartTime |-> ALWAYS_ACTIVE, nTimeout |-> NO_TIMEOUT,
           min_activation_height |-> 0]>>]

\* the fields of a -vbparams entry joined with colons
RECURSIVE JoinColon(_)
JoinColon(fields) ==
    IF Len(fields) = 1 THEN fields[1]
    ELSE fields[1] \o <<":">> \o JoinColon(Tail(fields))

\* deployment names: the two known ones and one that is none of them
VbNames ==
    {<<"t", "e", "s", "t", "d", "u", "m", "m", "y">>,
     <<"t", "a", "p", "r", "o", "o", "t">>,
     <<"s", "e", "g", "w", "i", "t">>}

\* number fields: 7, -1 and one that is no integer
VbNumbers == {<<"7">>, <<"-", "1">>, <<"x">>}

\* the entries of the model: a name followed by one to MaxVbNumbers numbers
VbFieldLists ==
    UNION {{<<name>> \o nums : name \in VbNames, nums \in [1..k -> VbNumbers]} :
               k \in 1..MaxVbNumbers}

\* the consensus parameters an entry can meet: the defaults of regtest, and
\* those left by an earlier entry taproot:1:2:3
VbBeforeValues ==
    {RegTestDefaults,
     UpdateVersionBitsParameters(RegTestDefaults, 2, 1, 2, 3)}

\* the loop over -vbparams reads one entry
VbLoopBody ==
    /\ vbResult = <<>>
    /\ vbResult' = <<ApplyVbParam(vbBefore, JoinColon(vbFields))>>
    /\ UNCHANGED <<vbFields, vbBefore>>
    /\ UNCHANGED <<avgVars, genVars, parVars, mineVars, concVars, ctorVars>>

\* CMainParams() of src/src/chainparams.cpp
CMainParams == BuildGenesis("CMainParams", NewParams("CMainParams", "main"))

\* CTestNetParams() of src/src/chainparams.cpp
CTestNetParams == BuildGenesis("CTestNetParams", NewParams("CTestNetParams", "test"))

\* explicit SigNetParams(const ArgsManager& args)
SigNetParams(args) ==
    IF Len(args.signetchallenge) > 1
    THEN Thrown(<<"SigNetParams", "signetchallenge">>)
    ELSE LET bin == IF args.signetchallenge = <<>> THEN DefaultSignetChallenge
                    ELSE ParseHex(args.signetchallenge[1])
         IN  BuildGenesis("SigNetParams",
                          [NewParams("SigNetParams", "signet")
                               EXCEPT !.signet_challenge = bin])

\* explicit CRegTestParams(const ArgsManager& args)
CRegTestParams(args) ==
    LET r == UpdateActivationParametersFromArgs(RegTestDefaults, args)
    IN  IF r.thrown # "none"
        THEN Thrown(<<"UpdateActivationParametersFromArgs", r.thrown>>)
        ELSE BuildGenesis("CRegTestParams",
                          [NewParams("CRegTestParams", "regtest")
                               EXCEPT !.regtest = <<r.consensus>>])

\* mutant: the mainnet constructor of src/unnamed/part_000 builds its genesis
\* block from the arguments of the one of src/src/chainparams.cpp
KernelCMainParams_OtherGenesis ==
    BuildGenesis("CMainParams", NewParams("kernel::CMainParams", "main"))

\* CMainParams() of src/unnamed/part_000
KernelCMainParams ==
    BuildGenesis("kernel::CMainParams", NewParams("kernel::CMainParams", "main"))

\* CTestNetParams() of src/unnamed/part_000
KernelCTestNetParams ==
    BuildGenesis("kernel::CTestNetParams", NewParams("kernel::CTestNetParams", "test"))

\* CTestNet4Params() of src/unnamed/part_000
KernelCTestNet4Params ==
    BuildGenesis("kernel::CTestNet4Params",
                 NewParams("kernel::CTestNet4Params", "testnet4"))

\* explicit SigNetParams(const SigNetOptions& options)
KernelSigNetParams(options) ==
    LET bin == IF options.challenge = <<>> THEN DefaultSignetChallenge
               ELSE options.challenge[1]
    IN  BuildGenesis("kernel::SigNetParams",
                     [NewParams("kernel::SigNetParams", "signet")
                          EXCEPT !.signet_challenge = bin])

\* explicit CRegTestParams(const RegTestOptions& opts)
KernelCRegTestParams(opts) ==
    LET heights == opts.activation_heights
        bits == opts.version_bits_parameters
        consensus ==
            [BIP16Height |-> IF "P2SH" \in DOMAIN heights THEN heights["P2SH"]
                             ELSE RegTestDefaults.BIP16Height,
             SegwitHeight |-> IF "SEGWIT" \in DOMAIN heights THEN heights["SEGWIT"]
                              ELSE RegTestDefaults.SegwitHeight,
             vDeployments |->
                [d \in 1..MAX_VERSION_BITS_DEPLOYMENTS |->
                    IF d \in DOMAIN bits
                    THEN [bit |-> RegTestDefaults.vDeployments[d].bit,
                          nStartTime |-> bits[d].start_time,
                          nTimeout |-> bits[d].timeout,
                          min_activation_height |-> bits[d].min_activation_height]
                    ELSE RegTestDefaults.vDeployments[d]]]
    IN  BuildGenesis("kernel::CRegTestParams",
                     [NewParams("kernel::CRegTestParams", "regtest")
                          EXCEPT !.regtest = <<consensus>>])

(***************************************************************************)
(* Creating and selecting parameter sets.                                  *)
(***************************************************************************)

\* CBaseChainParams::MAIN, TESTNET, SIGNET, REGTEST
ChainNames == {"main", "test", "signet", "regtest"}

\* the chain names callers pass: the four known ones and one that is none of them
ChainInputs == ChainNames \cup {"unknown"}

\* an ArgsManager without any of the arguments the constructors read
NoArgs == [signetchallenge |-> <<>>, bip16height |-> <<>>, segwitheight |-> <<>>,
           vbparams |-> <<>>]

\* command lines: -signetchallenge (hexadecimal digits), -bip16height,
\* -segwitheight and -vbparams, valid and invalid
ArgConfigs ==
    <<NoArgs,
      [signetchallenge |-> <<<<5, 1>>>>, bip16height |-> <<-1>>,
       segwitheight |-> <<7>>, vbparams |-> <<<<"t", "e", "s", "t", "d", "u", "m", "m", "y", ":", "0", ":", "9">>>>],
      [signetchallenge |-> <<<<5, 1>>, <<5, 2>>>>, bip16height |-> <<-2>>,
       segwitheight |-> <<>>, vbparams |-> <<>>],
      [signetchallenge |-> <<>>, bip16height |-> <<3>>,
       segwitheight |-> <<INT_MAX>>, vbparams |-> <<<<"t", "a", "p", "r", "o", "o", "t", ":", "1", ":", "2", ":", "3">>>>],
      [signetchallenge |-> <<>>, bip16height |-> <<>>, segwitheight |-> <<>>,
       vbparams |-> <<<<"t", "a", "p", "r", "o", "o", "t", ":", "1", ":", "2", ":", "3">>, <<"t", "a", "p", "r", "o", "o", "t", ":", "1">>>>],
      [signetchallenge |-> <<>>, bip16height |-> <<>>, segwitheight |-> <<-1>>,
       vbparams |-> <<<<"s", "e", "g", "w", "i", "t", ":", "0", ":", "9">>>>],
      [signetchallenge |-> <<>>, bip16height |-> <<3>>, segwitheight |-> <<-1>>,
       vbparams |-> <<>>]>>

\* SigNetOptions: the default challenge and an explicit one
SigNetOptionsValues == <<[challenge |-> <<>>], [challenge |-> <<<<81>>>>]>>

\* RegTestOptions: none, and activation heights with version bits parameters
RegTestOptionsValues ==
    <<[activation_heights |-> <<>>, version_bits_parameters |-> <<>>],
      [activation_heights |-> [dep \in {"P2SH", "SEGWIT"} |->
                                  IF dep = "P2SH" THEN 3 ELSE 5],
       version_bits_parameters |->
          [d \in {2} |-> [start_time |-> 0, timeout |-> 9,
                          min_activation_height |-> 4]]]>>

\* std::unique_ptr<const CChainParams> CreateChainParams(args, chain)
CreateChainParams(args, chain) ==
    IF chain = "main" THEN CMainParams
    ELSE IF chain = "test" THEN CTestNetParams
    ELSE IF chain = "signet" THEN SigNetParams(args)
    ELSE IF chain = "regtest" THEN CRegTestParams(args)
    ELSE Thrown(<<"CreateChainParams", "Unknown chain">>)

\* a record of a call: the function, the chain asked for, and how it ended
CallRecord(fn, chain, r) ==
    [fn |-> fn, chain |-> chain, outcome |-> r.outcome, obj |-> r.obj, at |-> r.at]

NoParamsCall ==
    [fn |-> "none", chain |-> "none", outcome |-> "none", obj |-> <<>>,
     at |-> <<"none", "none">>]

\* a caller calls CreateChainParams(gArgs, chain) and keeps what it returns
CallCreateChainParams(chain) ==
    /\ ~aborted
    /\ LET r == CreateChainParams(gArgs, chain)
       IN  /\ lastCall' = CallRecord("CreateChainParams", chain, r)
           /\ aborted' = (r.outcome = "aborted")
    /\ UNCHANGED <<badLiterals, gArgs, globalChainParams, baseNetwork>>
    /\ queried' = <<>>
    /\ UNCHANGED <<avgVars, genVars, mineVars, concVars, ctorVars, vbVars>>

\* SelectBaseParams(network): throws for an unknown chain, selects the base
\* parameters of the network otherwise
SelectBaseParams(network) ==
    IF network \in ChainNames
    THEN [thrown |-> FALSE, baseNetwork |-> <<network>>]
    ELSE [thrown |-> TRUE, baseNetwork |-> baseNetwork]

\* mutant: the old parameter set is released before the new one is created
SelectParams_ReleasesFirst(network) ==
    /\ ~aborted
    /\ LET base == SelectBaseParams(network)
           r == IF base.thrown THEN Thrown(<<"SelectBaseParams", "Unknown chain">>)
                ELSE CreateChainParams(gArgs, network)
       IN  /\ baseNetwork' = base.baseNetwork
           /\ globalChainParams' = IF r.outcome = "returned" THEN r.obj ELSE <<>>
           /\ lastCall' = [CallRecord("SelectParams", network, r) EXCEPT !.obj = <<>>]
           /\ aborted' = (r.outcome = "aborted")
    /\ UNCHANGED <<badLiterals, gArgs>>
    /\ queried' = <<>>
    /\ UNCHANGED <<avgVars, genVars, mineVars, concVars, ctorVars, vbVars>>

\* void SelectParams(const std::string& network)
SelectParams(network) ==
    /\ ~aborted
    /\ LET base == SelectBaseParams(network)
           r == IF base.thrown THEN Thrown(<<"SelectBaseParams", "Unknown chain">>)
                ELSE CreateChainParams(gArgs, network)
       IN  /\ baseNetwork' = base.baseNetwork
           /\ globalChainParams' =
                  IF r.outcome = "returned" THEN r.obj ELSE globalChainParams
           /\ lastCall' = [CallRecord("SelectParams", network, r) EXCEPT !.obj = <<>>]
           /\ aborted' = (r.outcome = "aborted")
    /\ UNCHANGED <<badLiterals, gArgs>>
    /\ queried' = <<>>
    /\ UNCHANGED <<avgVars, genVars, mineVars, concVars, ctorVars, vbVars>>

\* const CChainParams &Params()
CallParams ==
    /\ ~aborted
    /\ IF globalChainParams = <<>>
       THEN /\ lastCall' = CallRecord("Params", "none",
                                      Aborted(<<"Params", "globalChainParams">>))
            /\ aborted' = TRUE
       ELSE /\ lastCall' = CallRecord("Params", "none", Returned(globalChainParams[1]))
            /\ aborted' = FALSE
    /\ UNCHANGED <<badLiterals, gArgs, globalChainParams, baseNetwork>>
    /\ queried' = <<>>
    /\ UNCHANGED <<avgVars, genVars, mineVars, concVars, ctorVars, vbVars>>

\* a call of a factory of src/unnamed/part_000 that ends as r
CallFactory(fn, chain, r) ==
    /\ ~aborted
    /\ lastCall' = CallRecord(fn, chain, r)
    /\ aborted' = (r.outcome = "aborted")
    /\ UNCHANGED <<badLiterals, gArgs, globalChainParams, baseNetwork>>
    /\ queried' = <<>>
    /\ UNCHANGED <<avgVars, genVars, mineVars, concVars, ctorVars, vbVars>>

\* CChainParams::Main()
Main == CallFactory("Main", "main", KernelCMainParams)

\* CChainParams::TestNet()
TestNet == CallFactory("TestNet", "test", KernelCTestNetParams)

\* CChainParams::TestNet4()
TestNet4 == CallFactory("TestNet4", "testnet4", KernelCTestNet4Params)

\* CChainParams::SigNet(const SigNetOptions& options)
SigNet(options) == CallFactory("SigNet", "signet", KernelSigNetParams(options))

\* CChainParams::RegTest(const RegTestOptions& options)
RegTest(options) == CallFactory("RegTest", "regtest", KernelCRegTestParams(options))

(***************************************************************************)
(* Queries of parameter sets: GetAvailableSnapshotHeights and              *)
(* GetNetworkForMagic (src/unnamed/part_000:794-825), and AvgTargetSpacing *)
(* applied to the active parameters.                                       *)
(***************************************************************************)

\* a message start: four literal bytes, or (signet) the first four bytes of
\* the hash of the challenge script, kept as the script they are computed from
LiteralMagic(bytes) == Hash("bytes", bytes)

SignetMagic(challenge) == Hash("sha256d", challenge)

\* pchMessageStart as each constructor sets it
MessageStart(o) ==
    CASE o.ctor \in {"CMainParams", "kernel::CMainParams"} ->
            LiteralMagic(<<204, 190, 180, 254>>)
      [] o.ctor \in {"CTestNetParams", "kernel::CTestNetParams"} ->
            LiteralMagic(<<204, 191, 181, 254>>)
      [] o.ctor = "kernel::CTestNet4Params" -> LiteralMagic(<<28, 22, 63, 40>>)
      [] o.ctor \in {"CRegTestParams", "kernel::CRegTestParams"} ->
            LiteralMagic(<<204, 191, 181, 218>>)
      [] o.ctor \in {"SigNetParams", "kernel::SigNetParams"} ->
            SignetMagic(o.signet_challenge)

\* the heights of m_assumeutxo_data as each constructor of part_000 sets it
AssumeutxoHeights(o) ==
    CASE o.ctor = "kernel::CMainParams" -> <<840000>>
      [] o.ctor = "kernel::CTestNetParams" -> <<2500000>>
      [] o.ctor = "kernel::CTestNet4Params" -> <<0>>
      [] o.ctor = "kernel::SigNetParams" -> <<160000>>
      [] o.ctor = "kernel::CRegTestParams" -> <<110, 200, 299>>
      [] OTHER -> <<>>

\* std::vector<int> CChainParams::GetAvailableSnapshotHeights() const,
\* called on the parameter set the last factory call returned
GetAvailableSnapshotHeights ==
    /\ ~aborted
    /\ lastCall.obj # <<>>
    /\ lastCall.obj[1].ctor \in KernelCtors
    /\ queried' = <<[fn |-> "GetAvailableSnapshotHeights",
                     value |-> AssumeutxoHeights(lastCall.obj[1])]>>
    /\ UNCHANGED <<badLiterals, gArgs, globalChainParams, baseNetwork, lastCall, aborted>>
    /\ UNCHANGED <<avgVars, genVars, mineVars, concVars, ctorVars, vbVars>>

\* the parameter sets GetNetworkForMagic builds, in the order it builds them
MagicBuilds ==
    <<KernelCMainParams, KernelCTestNetParams, KernelCTestNet4Params,
      KernelCRegTestParams([activation_heights |-> <<>>, version_bits_parameters |-> <<>>]),
      KernelSigNetParams([challenge |-> <<>>])>>

\* mutant: signet is compared before regtest, while regtest is built before
\* signet
MagicOrder_SignetBeforeRegtest == <<"main", "test", "testnet4", "signet", "regtest">>

\* the chain types in the order GetNetworkForMagic compares them
MagicOrder == <<"main", "test", "testnet4", "regtest", "signet">>

\* the answer of GetNetworkForMagic once the five parameter sets are built:
\* the first chain type in the order whose message start equals the message
MagicAnswer(builds, message) ==
    LET hits == {i \in 1..Len(MagicOrder) : MessageStart(builds[i].obj[1]) = message}
    IN  IF hits = {} THEN <<>>
        ELSE <<MagicOrder[CHOOSE i \in hits : \A j \in hits : i <= j]>>

\* the messages GetNetworkForMagic is asked about
MagicInputs ==
    {LiteralMagic(<<204, 190, 180, 254>>), LiteralMagic(<<204, 191, 181, 254>>),
     LiteralMagic(<<28, 22, 63, 40>>), LiteralMagic(<<204, 191, 181, 218>>),
     SignetMagic(DefaultSignetChallenge), LiteralMagic(<<0, 0, 0, 0>>)}

\* mutant: the parameter sets are built in place of the active one, and the
\* last one built stays installed
GetNetworkForMagic_BuildsInPlace(message) ==
    /\ ~aborted
    /\ \E builds \in {MagicBuilds} :
           /\ \A i \in 1..Len(builds) : builds[i].outcome = "returned"
           /\ globalChainParams' = builds[Len(builds)].obj
           /\ queried' = <<[fn |-> "GetNetworkForMagic", message |-> message,
                            value |-> MagicAnswer(builds, message)]>>
    /\ lastCall' = [fn |-> "GetNetworkForMagic", chain |-> "none", outcome |-> "returned",
                    obj |-> <<>>, at |-> <<"none", "none">>]
    /\ UNCHANGED <<badLiterals, gArgs, baseNetwork, aborted>>
    /\ UNCHANGED <<avgVars, genVars, mineVars, concVars, ctorVars, vbVars>>

\* std::optional<ChainType> GetNetworkForMagic(const MessageStartChars& message)
GetNetworkForMagic(message) ==
    /\ ~aborted
    /\ \E builds \in {MagicBuilds} :
       LET failed == {i \in 1..Len(builds) : builds[i].outcome # "returned"}
       IN  IF failed = {}
           THEN /\ lastCall' = [fn |-> "GetNetworkForMagic", chain |-> "none",
                                outcome |-> "returned", obj |-> <<>>,
                                at |-> <<"none", "none">>]
                /\ queried' = <<[fn |-> "GetNetworkForMagic", message |-> message,
                                 value |-> MagicAnswer(builds, message)]>>
                /\ aborted' = FALSE
           ELSE LET i == CHOOSE i \in failed : \A j \in failed : i <= j
                IN  /\ lastCall' = CallRecord("GetNetworkForMagic", MagicOrder[i],
                                              builds[i])
                    /\ queried' = <<>>
                    /\ aborted' = (builds[i].outcome = "aborted")
    /\ UNCHANGED <<badLiterals, gArgs, globalChainParams, baseNetwork>>
    /\ UNCHANGED <<avgVars, genVars, mineVars, concVars, ctorVars, vbVars>>

\* the spacings the consensus rules of the active parameters give for the
\* two algorithms at some height
RuleSpacings == {<<2, 2>>, <<3, 6>>, <<1, 1>>}

\* AvgTargetSpacing (Params ().GetConsensus (), height), the rules giving sp
AvgTargetSpacingOfParams(sp) ==
    /\ ~aborted
    /\ globalChainParams # <<>>
    /\ LET r == AvgTargetSpacingOf(sp)
       IN  /\ queried' = <<[fn |-> "AvgTargetSpacing", value |-> r.value]>>
           /\ aborted' = (r.pc # "returned")
           /\ lastCall' = [fn |-> "AvgTargetSpacing", chain |-> "none",
                           outcome |-> IF r.pc = "returned" THEN "returned" ELSE "aborted",
                           obj |-> <<>>, at |-> <<"AvgTargetSpacing", r.pc>>]
    /\ UNCHANGED <<badLiterals, gArgs, globalChainParams, baseNetwork>>
    /\ UNCHANGED <<avgVars, genVars, mineVars, concVars, ctorVars, vbVars>>

(***************************************************************************)
(* MineGenesisBlock (src/src/chainparams.cpp:131-151, the same code at     *)
(* src/unnamed/part_000:150-170).                                          *)
(***************************************************************************)

\* the number of values of the nonce
NonceLimit == 2 ^ NonceBits

\* std::numeric_limits<uint32_t>::max ()
UINT32_MAX == NonceLimit - 1

\* the values of the nonce
NonceValues == 0..UINT32_MAX

\* the values GetTime () returns
TimeValues == WordValues

\* the blocks MineGenesisBlock is called with
MineCallers == {"CMainParams", "CRegTestParams"}

\* PowData::initFakeHeader: a new null fake header that commits to the hash
\* of the block
initFakeHeader(block) == [DefaultPureHeader EXCEPT !.hashMerkleRoot = GetHash(block)]

\* PowData::checkProofOfWork for the fake header: whether its nonce is one
\* of those that give a valid proof of work
checkProofOfWork(fakeHeader) == fakeHeader.nNonce \in powValid

\* the nonce MineGenesisBlock is testing
MineNonce == mineBlock[1].pow.fakeHeader[1].nNonce

\* mutant: the nonce is incremented without the assertion and wraps around
MineNextNonce_Wrap(nNonce) == [pc |-> "check", nNonce |-> (nNonce + 1) % NonceLimit]

\* mutant: the nonce is not incremented
MineNextNonce_NoIncrement(nNonce) ==
    IF nNonce < UINT32_MAX
    THEN [pc |-> "check", nNonce |-> nNonce]
    ELSE [pc |-> "assert_failed", nNonce |-> nNonce]

\* assert (fakeHeader.nNonce < std::numeric_limits<uint32_t>::max ());
\* ++fakeHeader.nNonce;
MineNextNonce(nNonce) ==
    IF nNonce < UINT32_MAX
    THEN [pc |-> "check", nNonce |-> (nNonce + 1) % NonceLimit]
    ELSE [pc |-> "assert_failed", nNonce |-> nNonce]

\* MineGenesisBlock is called with the genesis block of a constructor:
\* block.nTime = GetTime (); auto& fakeHeader = block.pow.initFakeHeader (block);
MineEntry(ctor, now) ==
    /\ minepc = "idle"
    /\ LET a == CtorGenesisArgs(ctor)
           created == CreateGenesisBlock(a.nTime, a.nNonce, a.nBits, a.timestamp,
                                         a.premineP2sh)
           block == [created EXCEPT !.nTime = now]
       IN  mineBlock' = <<[block EXCEPT !.pow.fakeHeader = <<initFakeHeader(block)>>]>>
    /\ minepc' = "check"
    /\ UNCHANGED <<powValid, timesTested, printed>>
    /\ UNCHANGED <<avgVars, genVars, parVars, concVars, ctorVars, vbVars>>

\* while (!block.pow.checkProofOfWork (fakeHeader, consensus))
MineCheckPow ==
    /\ minepc = "check"
    /\ timesTested' = [timesTested EXCEPT ![MineNonce] = IF @ < 2 THEN @ + 1 ELSE @]
    /\ minepc' = IF checkProofOfWork(mineBlock[1].pow.fakeHeader[1])
                 THEN "found" ELSE "increment"
    /\ UNCHANGED <<mineBlock, powValid, printed>>
    /\ UNCHANGED <<avgVars, genVars, parVars, concVars, ctorVars, vbVars>>

\* the body of the loop
MineIncrement ==
    /\ minepc = "increment"
    /\ LET r == MineNextNonce(MineNonce)
       IN  /\ minepc' = r.pc
           /\ mineBlock' = [mineBlock EXCEPT ![1].pow.fakeHeader[1].nNonce = r.nNonce]
    /\ UNCHANGED <<powValid, timesTested, printed>>
    /\ UNCHANGED <<avgVars, genVars, parVars, concVars, ctorVars, vbVars>>

\* the four lines printed after the loop, and exit (EXIT_SUCCESS)
MineExit ==
    /\ minepc = "found"
    /\ printed' = <<[nNonce |-> MineNonce,
                     nTime |-> mineBlock[1].nTime,
                     hash |-> GetHash(mineBlock[1]),
                     hashMerkleRoot |-> mineBlock[1].hashMerkleRoot]>>
    /\ minepc' = "exited"
    /\ UNCHANGED <<mineBlock, powValid, timesTested>>
    /\ UNCHANGED <<avgVars, genVars, parVars, concVars, ctorVars, vbVars>>

(***************************************************************************)
(* Concurrent calls of AvgTargetSpacing (src/src/chainparams.cpp:789-823): *)
(* several threads call the function with the same parameter set.          *)
(***************************************************************************)

\* the threads
Threads == 1..NumThreads

\* the heights the function is called with
ConcHeights == 0..1

\* the parameter sets: a spacing for each algorithm at each height
ConcParamSets == [ConcHeights -> [1..Len(PowAlgos) -> 1..MaxConcSpacing]]

\* params.rules->GetTargetSpacing(algo, height): reads the parameter set only
GetTargetSpacing(params, algo, height) == params[height][algo]

\* mutant: numer and denom are static, one storage for every invocation
AvgStorage_Static(t) == 1

\* int64_t numer, denom are automatic variables: each invocation has its own
AvgStorage(t) == t

\* a thread that is not in the function
ThreadIdle == [height |-> 0, idx |-> 0, pc |-> "idle", result |-> NoValue]

\* the process is running: no thread has failed an assertion
ConcRunning == \A t \in Threads : threads[t].pc \notin {"abort_denom", "abort_exact"}

\* thread t enters AvgTargetSpacing (params, height): numer = 1, denom = 0
ConcCall(t, height) ==
    /\ ConcRunning
    /\ threads[t].pc = "idle"
    /\ threads' = [threads EXCEPT ![t] = [height |-> height, idx |-> 0, pc |-> "loop",
                                          result |-> NoValue]]
    /\ locals' = [locals EXCEPT ![AvgStorage(t)] =
                      [numer |-> AvgInitNumer, denom |-> AvgInitDenom]]
    /\ UNCHANGED concParams
    /\ UNCHANGED <<avgVars, genVars, parVars, mineVars, ctorVars, vbVars>>

\* thread t runs one iteration of the loop
ConcLoopIter(t) ==
    /\ ConcRunning
    /\ threads[t].pc = "loop"
    /\ threads[t].idx < Len(PowAlgos)
    /\ LET spacing == GetTargetSpacing(concParams, threads[t].idx + 1, threads[t].height)
       IN  locals' = [locals EXCEPT ![AvgStorage(t)] = AvgLoopBody(@, spacing)]
    /\ threads' = [threads EXCEPT ![t].idx = @ + 1]
    /\ UNCHANGED concParams
    /\ UNCHANGED <<avgVars, genVars, parVars, mineVars, ctorVars, vbVars>>

\* thread t leaves the loop: the two assertions and the return
ConcFinish(t) ==
    /\ ConcRunning
    /\ threads[t].pc = "loop"
    /\ threads[t].idx = Len(PowAlgos)
    /\ LET acc == locals[AvgStorage(t)]
           r == IF acc.denom > 0 THEN AvgReturn(acc.numer, acc.denom)
                ELSE [pc |-> "abort_denom", value |-> NoValue]
       IN  threads' = [threads EXCEPT ![t].pc = r.pc, ![t].result = r.value]
    /\ UNCHANGED <<concParams, locals>>
    /\ UNCHANGED <<avgVars, genVars, parVars, mineVars, ctorVars, vbVars>>

(***************************************************************************)
(* The body of a constructor: the assignments to consensus.SegwitHeight,   *)
(* MinBIP9WarningHeight, nMinerConfirmationWindow, nAuxpowChainId and      *)
(* rules, in the order the constructor makes them.  The object is created  *)
(* by new / make_unique with a user-provided constructor, so an int of     *)
(* consensus holds an indeterminate value until its first assignment; the  *)
(* unique_ptr rules starts null.                                           *)
(***************************************************************************)

\* the values an int can hold before its first assignment
UninitValues == (0..MaxUninit) \cup {1829, 2016}

\* consensus.<field> = value;
Assign(field, value) == [op |-> "assign", field |-> field, value |-> value, cls |-> ""]

\* consensus.MinBIP9WarningHeight = consensus.SegwitHeight + consensus.nMinerConfirmationWindow;
AssignWarningSum ==
    [op |-> "sum", field |-> "MinBIP9WarningHeight", value |-> 0, cls |-> ""]

\* consensus.rules.reset(new Consensus::<cls>());
ResetRules(cls) == [op |-> "rules", field |-> "rules", value |-> 0, cls |-> cls]

\* the assignments of each constructor, in source order
ConstructorBody(ctor) ==
    CASE ctor = "CMainParams" ->
            <<Assign("SegwitHeight", 0), Assign("MinBIP9WarningHeight", 2016),
              Assign("nMinerConfirmationWindow", 2016),
              Assign("nAuxpowChainId", 1829), ResetRules("MainNetConsensus")>>
      [] ctor = "CTestNetParams" ->
            <<Assign("SegwitHeight", 0), Assign("MinBIP9WarningHeight", 2016),
              AssignWarningSum, Assign("nMinerConfirmationWindow", 2016),
              Assign("nAuxpowChainId", 1829), ResetRules("TestNetConsensus")>>
      [] ctor = "SigNetParams" ->
            <<Assign("SegwitHeight", 1), Assign("nMinerConfirmationWindow", 2016),
              Assign("MinBIP9WarningHeight", 0),
              Assign("nAuxpowChainId", 1829), ResetRules("TestNetConsensus")>>
      [] ctor = "CRegTestParams" ->
            <<Assign("SegwitHeight", 0), Assign("MinBIP9WarningHeight", 0),
              Assign("nMinerConfirmationWindow", 144),
              Assign("nAuxpowChainId", 1829), ResetRules("RegTestConsensus")>>
      [] ctor = "kernel::CMainParams" ->
            <<Assign("SegwitHeight", 0), Assign("MinBIP9WarningHeight", 2016),
              Assign("nMinerConfirmationWindow", 2016),
              Assign("nAuxpowChainId", 1829), ResetRules("MainNetConsensus")>>
      [] ctor = "kernel::CTestNetParams" ->
            <<Assign("SegwitHeight", 0), Assign("MinBIP9WarningHeight", 2016),
              AssignWarningSum, Assign("nMinerConfirmationWindow", 2016),
              Assign("nAuxpowChainId", 1829), ResetRules("TestNetConsensus")>>
      [] ctor = "kernel::CTestNet4Params" ->
            <<Assign("SegwitHeight", 1), Assign("MinBIP9WarningHeight", 0),
              Assign("nMinerConfirmationWindow", 2016)>>
      [] ctor = "kernel::SigNetParams" ->
            <<Assign("SegwitHeight", 1), Assign("nMinerConfirmationWindow", 2016),
              Assign("MinBIP9WarningHeight", 0),
              Assign("nAuxpowChainId", 1829), ResetRules("TestNetConsensus")>>
      [] ctor = "kernel::CRegTestParams" ->
            <<Assign("SegwitHeight", 0), Assign("MinBIP9WarningHeight", 0),
              Assign("nMinerConfirmationWindow", 144),
              Assign("nAuxpowChainId", 1829), ResetRules("RegTestConsensus")>>

\* the network each constructor is the parameter set of
CtorNetwork(ctor) ==
    CASE ctor \in {"CMainParams", "kernel::CMainParams"} -> "main"
      [] ctor \in {"CTestNetParams", "kernel::CTestNetParams"} -> "test"
      [] ctor = "kernel::CTestNet4Params" -> "testnet4"
      [] ctor \in {"SigNetParams", "kernel::SigNetParams"} -> "signet"
      [] ctor \in {"CRegTestParams", "kernel::CRegTestParams"} -> "regtest"

\* the consensus parameters after one assignment
Execute(c, st) ==
    CASE st.op = "assign" -> [c EXCEPT ![st.field] = st.value]
      [] st.op = "sum" ->
            [c EXCEPT !.MinBIP9WarningHeight = c.SegwitHeight + c.nMinerConfirmationWindow]
      [] st.op = "rules" -> [c EXCEPT !.rules = <<st.cls>>]

\* Consensus::Params of an object whose constructor has not begun: the ints
\* hold what the memory held, rules is a null pointer
FreshConsensus ==
    [SegwitHeight : UninitValues, MinBIP9WarningHeight : UninitValues,
     nMinerConfirmationWindow : UninitValues, nAuxpowChainId : UninitValues,
     rules : {<<>>}]

\* the constructor begins
ConstructorEntry(ctor, fresh) ==
    /\ building = <<ctor>>
    /\ uninit = fresh
    /\ built = fresh
    /\ ctorStep = 0
    /\ constructed = FALSE

\* the next assignment of the constructor runs
ConstructorStep ==
    /\ building # <<>>
    /\ ~constructed
    /\ ctorStep < Len(ConstructorBody(building[1]))
    /\ built' = Execute(built, ConstructorBody(building[1])[ctorStep + 1])
    /\ ctorStep' = ctorStep + 1
    /\ UNCHANGED <<building, uninit, constructed>>
    /\ UNCHANGED <<avgVars, genVars, parVars, mineVars, concVars, vbVars>>

\* the constructor returns: the object is finished
ConstructorReturn ==
    /\ building # <<>>
    /\ ~constructed
    /\ ctorStep = Len(ConstructorBody(building[1]))
    /\ constructed' = TRUE
    /\ UNCHANGED <<building, uninit, built, ctorStep>>
    /\ UNCHANGED <<avgVars, genVars, parVars, mineVars, concVars, vbVars>>

\* AvgTargetSpacing (params, height) on the finished object reaches
\* params.rules->GetTargetSpacing: a null rules is dereferenced
RulesQueryable(c) == c.rules # <<>>

(***************************************************************************)
(* Specifications.                                                         *)
(***************************************************************************)

\* no -vbparams entry is being read
VbIdle ==
    /\ vbFields = <<>>
    /\ vbBefore = RegTestDefaults
    /\ vbResult = <<>>

\* no constructor body is being followed
CtorIdle ==
    /\ building = <<>>
    /\ uninit = [SegwitHeight |-> 0, MinBIP9WarningHeight |-> 0,
                 nMinerConfirmationWindow |-> 0, nAuxpowChainId |-> 0, rules |-> <<>>]
    /\ built = uninit
    /\ ctorStep = 0
    /\ constructed = FALSE

\* AvgTargetSpacing is not running
AvgIdle ==
    /\ spacings = <<>>
    /\ idx = 0
    /\ numer = AvgInitNumer
    /\ denom = AvgInitDenom
    /\ avgpc = "idle"
    /\ result = NoValue

\* CreateGenesisBlock has not been called
GenesisIdle ==
    /\ first = NoCall
    /\ second = NoCall

\* no parameter set has been created or selected; every literal is right
ParamsIdle ==
    /\ badLiterals = {}
    /\ gArgs = NoArgs
    /\ globalChainParams = <<>>
    /\ baseNetwork = <<>>
    /\ lastCall = NoParamsCall
    /\ aborted = FALSE
    /\ queried = <<>>

\* MineGenesisBlock has not been called
MineIdle ==
    /\ mineBlock = <<>>
    /\ minepc = "idle"
    /\ powValid = {}
    /\ timesTested = [n \in NonceValues |-> 0]
    /\ printed = <<>>

\* no thread is in AvgTargetSpacing
ConcIdle ==
    /\ concParams = [h \in ConcHeights |-> [a \in 1..Len(PowAlgos) |-> 1]]
    /\ threads = [t \in Threads |-> ThreadIdle]
    /\ locals = [t \in Threads |-> [numer |-> AvgInitNumer, denom |-> AvgInitDenom]]

InitAvg ==
    /\ \E n \in 1..MaxAlgos : \E sp \in SpacingLists(n) : AvgEntry(sp)
    /\ GenesisIdle
    /\ VbIdle
    /\ CtorIdle
    /\ ParamsIdle
    /\ MineIdle
    /\ ConcIdle

NextAvg ==
    \/ AvgLoopIter
    \/ AvgLoopExit
    \/ AvgCheckDenom
    \/ AvgCheckExact

SpecAvg == InitAvg /\ [][NextAvg]_vars

InitGenesis ==
    /\ AvgIdle
    /\ GenesisIdle
    /\ VbIdle
    /\ CtorIdle
    /\ ParamsIdle
    /\ MineIdle
    /\ ConcIdle

NextGenesis ==
    \E caller \in GenesisCallers : \E a \in GenesisArgs : CallCreateGenesisBlock(caller, a)

SpecGenesis == InitGenesis /\ [][NextGenesis]_vars

\* the builds the process may be: each has at most MaxBadLiterals literals
\* that are not the hash they stand for, and one command line
InitParams ==
    /\ AvgIdle
    /\ GenesisIdle
    /\ VbIdle
    /\ CtorIdle
    /\ badLiterals \in {b \in SUBSET (Ctors \X LiteralKinds) :
                           Cardinality(b) <= MaxBadLiterals}
    /\ \E i \in 1..Len(ArgConfigs) : gArgs = ArgConfigs[i]
    /\ globalChainParams = <<>>
    /\ baseNetwork = <<>>
    /\ lastCall = NoParamsCall
    /\ aborted = FALSE
    /\ queried = <<>>
    /\ MineIdle
    /\ ConcIdle

NextParams ==
    \/ \E network \in ChainInputs : SelectParams(network)
    \/ \E chain \in ChainInputs : CallCreateChainParams(chain)
    \/ CallParams
    \/ Main
    \/ TestNet
    \/ TestNet4
    \/ \E i \in 1..Len(SigNetOptionsValues) : SigNet(SigNetOptionsValues[i])
    \/ \E i \in 1..Len(RegTestOptionsValues) : RegTest(RegTestOptionsValues[i])

SpecParams == InitParams /\ [][NextParams]_vars

\* the builds in which the parameter sets are also queried: at most
\* MaxBadLiterals hash literals of the constructors of part_000 are wrong
InitQueries ==
    /\ AvgIdle
    /\ GenesisIdle
    /\ VbIdle
    /\ CtorIdle
    /\ badLiterals \in {b \in SUBSET (KernelCtors \X {"hash"}) :
                           Cardinality(b) <= MaxBadLiterals}
    /\ \E i \in 1..Len(ArgConfigs) : gArgs = ArgConfigs[i]
    /\ globalChainParams = <<>>
    /\ baseNetwork = <<>>
    /\ lastCall = NoParamsCall
    /\ aborted = FALSE
    /\ queried = <<>>
    /\ MineIdle
    /\ ConcIdle

NextQueries ==
    \/ \E network \in ChainInputs : SelectParams(network)
    \/ \E chain \in ChainInputs : CallCreateChainParams(chain)
    \/ CallParams
    \/ Main
    \/ TestNet
    \/ TestNet4
    \/ \E i \in 1..Len(SigNetOptionsValues) : SigNet(SigNetOptionsValues[i])
    \/ \E i \in 1..Len(RegTestOptionsValues) : RegTest(RegTestOptionsValues[i])
    \/ GetAvailableSnapshotHeights
    \/ \E message \in MagicInputs : GetNetworkForMagic(message)
    \/ \E sp \in RuleSpacings : AvgTargetSpacingOfParams(sp)

SpecQueries == InitQueries /\ [][NextQueries]_vars

\* the operator has not started the search yet; which nonces give a valid
\* proof of work is a fact of the block and the target
InitMine ==
    /\ AvgIdle
    /\ GenesisIdle
    /\ VbIdle
    /\ CtorIdle
    /\ ParamsIdle
    /\ mineBlock = <<>>
    /\ minepc = "idle"
    /\ powValid \in SUBSET NonceValues
    /\ timesTested = [n \in NonceValues |-> 0]
    /\ printed = <<>>
    /\ ConcIdle

NextMine ==
    \/ \E ctor \in MineCallers : \E now \in TimeValues : MineEntry(ctor, now)
    \/ MineCheckPow
    \/ MineIncrement
    \/ MineExit

SpecMine == InitMine /\ [][NextMine]_vars

\* the threads are about to call AvgTargetSpacing with one parameter set
InitAvgConc ==
    /\ AvgIdle
    /\ GenesisIdle
    /\ VbIdle
    /\ CtorIdle
    /\ ParamsIdle
    /\ MineIdle
    /\ concParams \in ConcParamSets
    /\ threads = [t \in Threads |-> ThreadIdle]
    /\ locals = [t \in Threads |-> [numer |-> AvgInitNumer, denom |-> AvgInitDenom]]

NextAvgConc ==
    \/ \E t \in Threads : \E height \in ConcHeights : ConcCall(t, height)
    \/ \E t \in Threads : ConcLoopIter(t)
    \/ \E t \in Threads : ConcFinish(t)

SpecAvgConc == InitAvgConc /\ [][NextAvgConc]_vars

\* the search is sequential code: a step that can be taken is taken
SpecMineFair == SpecMine /\ WF_vars(NextMine)

InitVb ==
    /\ AvgIdle
    /\ GenesisIdle
    /\ ParamsIdle
    /\ MineIdle
    /\ ConcIdle
    /\ CtorIdle
    /\ vbFields \in VbFieldLists
    /\ vbBefore \in VbBeforeValues
    /\ vbResult = <<>>

NextVb == VbLoopBody

SpecVb == InitVb /\ [][NextVb]_vars

InitCtor ==
    /\ AvgIdle
    /\ GenesisIdle
    /\ VbIdle
    /\ ParamsIdle
    /\ MineIdle
    /\ ConcIdle
    /\ \E ctor \in Ctors : \E fresh \in FreshConsensus : ConstructorEntry(ctor, fresh)

NextCtor ==
    \/ ConstructorStep
    \/ ConstructorReturn

SpecCtor == InitCtor /\ [][NextCtor]_vars

(***************************************************************************)
(* Closed forms the claims about AvgTargetSpacing are stated with.         *)
(***************************************************************************)
RECURSIVE ProductOf(_)
ProductOf(s) == IF s = <<>> THEN 1 ELSE Head(s) * ProductOf(Tail(s))

\* the list without its i-th element
Without(s, i) == [j \in 1..(Len(s) - 1) |-> IF j < i THEN s[j] ELSE s[j + 1]]

RECURSIVE SumOfOthersUpTo(_, _)
SumOfOthersUpTo(s, i) ==
    IF i = 0 THEN 0 ELSE ProductOf(Without(s, i)) + SumOfOthersUpTo(s, i - 1)

\* sum, over each algorithm, of the product of all other algorithms' spacings
SumOfOthers(s) == SumOfOthersUpTo(s, Len(s))

\* the list s reordered by the permutation p of its indices
Reordered(s, p) == [i \in 1..Len(s) |-> s[p[i]]]

(***************************************************************************)
(* Claims about AvgTargetSpacing, checked under SpecAvg.                   *)
(***************************************************************************)

\* C1: whenever the product of the spacings is an exact multiple of the sum,
\* over each algorithm, of the product of all other spacings, the function
\* returns that quotient: s1*s2/(s1+s2) for the two algorithms of the code, and
\* (s_1*...*s_N) / (sum_i prod_{j#i} s_j) for a list of N >= 1 spacings.
C1_ClosedFormQuotient ==
    (AvgTerminal /\ ProductOf(spacings) % SumOfOthers(spacings) = 0)
        => /\ avgpc = "returned"
           /\ result = <<ProductOf(spacings) \div SumOfOthers(spacings)>>
           /\ (Len(spacings) = Len(PowAlgos)
                 => result[1] * (spacings[1] + spacings[2]) = spacings[1] * spacings[2])

\* two different spacings of the code's two algorithms gave an exact quotient
C1_Witness ==
    /\ avgpc = "returned"
    /\ Len(spacings) = Len(PowAlgos)
    /\ spacings[1] # spacings[2]
    /\ result = <<ProductOf(spacings) \div SumOfOthers(spacings)>>

\* C2 as stated: for two algorithms with equal spacing s, for EVERY positive
\* integer s, the function returns s/2.
C2_Original ==
    (AvgTerminal /\ Len(spacings) = 2 /\ spacings[1] = spacings[2])
        => /\ avgpc = "returned"
           /\ result # NoValue
           /\ 2 * result[1] = spacings[1]

\* C2 (amended): for two algorithms with equal spacing s the function returns
\* s/2 when s is even; when s is odd the exact-division assertion fails and
\* nothing is returned.
C2_EqualSpacingsHalf ==
    (AvgTerminal /\ Len(spacings) = 2 /\ spacings[1] = spacings[2])
        => IF spacings[1] % 2 = 0
           THEN avgpc = "returned" /\ result = <<spacings[1] \div 2>>
           ELSE avgpc = "abort_exact" /\ result = NoValue

\* two equal even spacings were averaged
C2_Witness ==
    /\ avgpc = "returned"
    /\ Len(spacings) = 2
    /\ spacings[1] = spacings[2]
    /\ spacings[1] > 2

\* C3: with exactly one algorithm in the list the accumulation returns that
\* algorithm's own spacing, and neither assertion fails.
C3_SingleAlgorithm ==
    Len(spacings) = 1 =>
        /\ avgpc \notin {"abort_denom", "abort_exact"}
        /\ (avgpc \in {"check_denom", "check_exact", "returned"}
              => numer = spacings[1] /\ denom = 1)
        /\ (AvgTerminal => avgpc = "returned" /\ result = <<spacings[1]>>)

\* a single spacing larger than 1 was returned
C3_Witness ==
    /\ Len(spacings) = 1
    /\ avgpc = "returned"
    /\ result = <<spacings[1]>>
    /\ spacings[1] > 1

\* C4: the final result does not depend on the order of the algorithm list:
\* run over any permutation of the list the function ends with the same numer
\* and denom, and returns the same value or fails the same assertion.
C4_OrderIndependent ==
    AvgTerminal =>
        \A p \in Permutations(1..Len(spacings)) :
            AvgTargetSpacingOf(Reordered(spacings, p))
                = [numer |-> numer, denom |-> denom, pc |-> avgpc, value |-> result]

\* a list of three pairwise different spacings was averaged
C4_Witness ==
    /\ avgpc = "returned"
    /\ Len(spacings) = 3
    /\ Cardinality({spacings[i] : i \in 1..3}) = 3

\* C5: whenever the product of the spacings is not an exact multiple of the
\* denominator the function stops at its assertion and returns no value; a
\* value it returns is never a truncated quotient.
C5_NoTruncatedQuotient ==
    /\ (AvgTerminal /\ ProductOf(spacings) % SumOfOthers(spacings) # 0)
          => avgpc = "abort_exact" /\ result = NoValue
    /\ (result # NoValue
          => avgpc = "returned" /\ result[1] * SumOfOthers(spacings) = ProductOf(spacings))

\* the function stopped at the exact-division assertion for the code's two algorithms
C5_Witness ==
    /\ avgpc = "abort_exact"
    /\ Len(spacings) = Len(PowAlgos)
    /\ ProductOf(spacings) % SumOfOthers(spacings) # 0
    /\ result = NoValue

(***************************************************************************)
(* Claims about the genesis assertions, checked under SpecParams.          *)
(***************************************************************************)

\* the parameter sets the process holds: the one the last call returned and
\* the one SelectParams installed
HeldParams ==
    {lastCall.obj[i] : i \in 1..Len(lastCall.obj)}
        \cup {globalChainParams[i] : i \in 1..Len(globalChainParams)}

\* the genesis block of a parameter set has the hash and the merkle root
\* the literals of its constructor say
GenesisMatchesLiterals(o) ==
    /\ o.genesis # <<>>
    /\ o.hashGenesisBlock = GetHash(o.genesis[1])
    /\ o.hashGenesisBlock = GenesisLiteral(o.ctor, "hash", GetHash(o.genesis[1]))
    /\ o.genesis[1].hashMerkleRoot
           = GenesisLiteral(o.ctor, "merkle", BlockMerkleRoot(o.genesis[1]))

\* the constructor a call runs, if it runs one
ConstructorRun(call) ==
    IF call.fn \in {"SelectParams", "CreateChainParams"}
    THEN CASE call.chain = "main" -> <<"CMainParams">>
           [] call.chain = "test" -> <<"CTestNetParams">>
           [] call.chain = "signet" -> <<"SigNetParams">>
           [] call.chain = "regtest" -> <<"CRegTestParams">>
           [] OTHER -> <<>>
    ELSE CASE call.fn = "Main" -> <<"kernel::CMainParams">>
           [] call.fn = "TestNet" -> <<"kernel::CTestNetParams">>
           [] call.fn = "TestNet4" -> <<"kernel::CTestNet4Params">>
           [] call.fn = "SigNet" -> <<"kernel::SigNetParams">>
           [] call.fn = "RegTest" -> <<"kernel::CRegTestParams">>
           [] OTHER -> <<>>

\* C6: a constructor whose genesis block differs from one of its literals
\* halts at the assertion (the process ends there, nothing is returned), and
\* no parameter set whose genesis mismatches its literals is held: neither
\* returned by CreateChainParams or a factory nor installed by SelectParams.
C6_MismatchHaltsConstruction ==
    /\ \A o \in HeldParams : GenesisMatchesLiterals(o)
    /\ LET ctor == ConstructorRun(lastCall)
       IN  (/\ ctor # <<>>
            /\ lastCall.outcome # "thrown"
            /\ \E kind \in LiteralKinds : <<ctor[1], kind>> \in badLiterals)
           => /\ lastCall.outcome = "aborted"
              /\ aborted
              /\ lastCall.obj = <<>>
              /\ lastCall.at[1] = ctor[1]
              /\ <<lastCall.at[1], lastCall.at[2]>> \in badLiterals

\* C6 witness: SelectParams has installed a parameter set, and a later
\* SelectParams has halted at the merkle-root assertion of a constructor
\* whose merkle-root literal is wrong; the installed set is still the old one.
C6_Witness ==
    /\ aborted
    /\ lastCall.fn = "SelectParams"
    /\ lastCall.outcome = "aborted"
    /\ lastCall.at[2] = "merkle"
    /\ <<lastCall.at[1], "merkle">> \in badLiterals
    /\ globalChainParams # <<>>
    /\ globalChainParams[1].ctor # lastCall.at[1]
    /\ GenesisMatchesLiterals(globalChainParams[1])

(***************************************************************************)
(* Claims about CreateGenesisBlock, checked under SpecGenesis.             *)
(***************************************************************************)

\* the calls made so far
CallsMade == {c \in {first, second} : c # NoCall}

\* both calls have been made
BothCalls == first # NoCall /\ second # NoCall

\* the arguments in which two argument lists differ
DifferIn(a, b) ==
    {f \in {"nTime", "nNonce", "nBits", "timestamp", "premineP2sh"} : a[f] # b[f]}

\* C7 as stated: two calls whose arguments differ in exactly one of nTime,
\* nonce, bits, message or premine hash return blocks with different hashes.
C7_Original ==
    (BothCalls /\ Cardinality(DifferIn(first[1].args, second[1].args)) = 1)
        => GetHash(first[1].block) # GetHash(second[1].block)

\* C7 (amended): two calls whose arguments differ in exactly one of nTime,
\* message or premine hash return blocks with different hashes; two calls
\* that differ only in nonce or bits return blocks with the same hash and
\* different PoW data.
C7_HashCoversTimeMessagePremine ==
    BothCalls =>
        LET d == DifferIn(first[1].args, second[1].args)
        IN  /\ (Cardinality(d) = 1 /\ d \subseteq {"nTime", "timestamp", "premineP2sh"}
                  => GetHash(first[1].block) # GetHash(second[1].block))
            /\ (d # {} /\ d \subseteq {"nNonce", "nBits"}
                  => /\ GetHash(first[1].block) = GetHash(second[1].block)
                     /\ first[1].block.pow # second[1].block.pow)

\* two calls that differ only in the premine hash
C7_Witness ==
    /\ BothCalls
    /\ DifferIn(first[1].args, second[1].args) = {"premineP2sh"}
    /\ GetHash(first[1].block) # GetHash(second[1].block)

C9_PowDataCommitsToBlockHash ==
    \A c \in CallsMade :
        LET block == c[1].block
            args == c[1].args
        IN  /\ block.pow.coreAlgo = "NEOSCRYPT"
            /\ block.pow.nBits = args.nBits
            /\ Len(block.pow.fakeHeader) = 1
            /\ block.pow.fakeHeader[1].nNonce = args.nNonce
            /\ block.pow.fakeHeader[1].hashMerkleRoot = GetHash(block)

\* a block was returned for a nonce other than the header's own nonce of 0
C9_Witness ==
    /\ first # NoCall
    /\ first[1].args.nNonce # 0
    /\ first[1].block.pow.fakeHeader[1].nNonce = first[1].args.nNonce
    /\ first[1].block.pow.fakeHeader[1].hashMerkleRoot = GetHash(first[1].block)

\* C10: the merkle root of the returned block is the hash of its single
\* transaction, and it depends only on the message and the premine hash.
C10_MerkleRootIsTxHash ==
    /\ \A c \in CallsMade :
          /\ Len(c[1].block.vtx) = 1
          /\ c[1].block.hashMerkleRoot = TxHash(c[1].block.vtx[1])
    /\ (BothCalls /\ DifferIn(first[1].args, second[1].args) \subseteq {"nTime", "nNonce", "nBits"})
          => first[1].block.hashMerkleRoot = second[1].block.hashMerkleRoot

\* two calls with the same message and premine hash and different nTime,
\* nNonce and nBits
C10_Witness ==
    /\ BothCalls
    /\ DifferIn(first[1].args, second[1].args) = {"nTime", "nNonce", "nBits"}
    /\ first[1].block.hashMerkleRoot = TxHash(second[1].block.vtx[1])

\* C11: every returned block has exactly one transaction, with exactly one
\* input whose scriptSig is the push of the message bytes and exactly one
\* output, and its hashPrevBlock is the null hash.
C11_OneTxOneInputOneOutput ==
    \A c \in CallsMade :
        LET block == c[1].block
        IN  /\ Len(block.vtx) = 1
            /\ Len(block.vtx[1].vin) = 1
            /\ block.vtx[1].vin[1].scriptSig = <<ScriptPush(c[1].args.timestamp)>>
            /\ Len(block.vtx[1].vout) = 1
            /\ block.hashPrevBlock = NullHash

\* a block was returned for a message that is not empty
C11_Witness ==
    /\ first # NoCall
    /\ Len(first[1].args.timestamp) > 0
    /\ Len(first[1].block.vtx) = 1
    /\ first[1].block.vtx[1].vin[1].scriptSig[1].data = first[1].args.timestamp

\* the number of bytes of a uint160
HashBytes == 20

\* C12: the output script is OP_HASH160, a push of the 20 bytes of the
\* premine hash in reversed order (pushed byte i is byte 19-i of the hash,
\* counted from 0), OP_EQUAL.
C12_OutputScript ==
    \A c \in CallsMade :
        LET script == c[1].block.vtx[1].vout[1].scriptPubKey
            hash == c[1].args.premineP2sh
        IN  /\ Len(script) = 3
            /\ script[1] = ScriptOp("OP_HASH160")
            /\ script[2].op = "PUSH"
            /\ Len(script[2].data) = HashBytes
            /\ \A i \in 0..(HashBytes - 1) :
                   script[2].data[i + 1] = hash[(HashBytes - 1 - i) + 1]
            /\ script[3] = ScriptOp("OP_EQUAL")

\* a block was returned for the mainnet premine hash, whose first and last
\* bytes differ, and the script starts with the last byte of the hash
C12_Witness ==
    /\ first # NoCall
    /\ first[1].args.premineP2sh = uint160S(hexPremineAddressMainnet)
    /\ first[1].args.premineP2sh[1] # first[1].args.premineP2sh[HashBytes]
    /\ first[1].block.vtx[1].vout[1].scriptPubKey[2].data[1]
           = first[1].args.premineP2sh[HashBytes]

\* C13: the byte reversal is an involution: reversing the 20 bytes of the
\* premine hash twice gives the original bytes, so reversing the bytes the
\* script pushes gives the premine hash back.
C13_ReverseInvolution ==
    \A c \in CallsMade :
        LET hash == c[1].args.premineP2sh
            pushed == c[1].block.vtx[1].vout[1].scriptPubKey[2].data
        IN  /\ Len(hash) = HashBytes
            /\ Reverse(Reverse(hash)) = hash
            /\ Reverse(pushed) = hash

\* a block was returned for the regtest premine hash, which is not its own
\* reversal
C13_Witness ==
    /\ first # NoCall
    /\ first[1].args.premineP2sh = uint160S(hexPremineAddressRegtest)
    /\ Reverse(first[1].args.premineP2sh) # first[1].args.premineP2sh
    /\ Reverse(Reverse(first[1].args.premineP2sh)) = first[1].args.premineP2sh

(***************************************************************************)
(* Claims about MineGenesisBlock, checked under SpecMine and SpecMineFair.  *)
(***************************************************************************)

\* the number of calls of checkProofOfWork made so far
RECURSIVE ChecksUpTo(_)
ChecksUpTo(n) == IF n < 0 THEN 0 ELSE timesTested[n] + ChecksUpTo(n - 1)

ChecksMade == ChecksUpTo(UINT32_MAX)

\* the search has ended: exit (EXIT_SUCCESS) or the failed assertion
MineEnded == minepc \in {"exited", "assert_failed"}

\* C14: the nonce never wraps around.  No nonce is tested twice, every
\* nonce tested so far is at or below the current one (the search never
\* continues at 0), and the exhaustion assertion fails exactly at the
\* largest nonce, after the check has failed for it.
C14_NonceNeverWraps ==
    /\ \A n \in NonceValues : timesTested[n] <= 1
    /\ mineBlock # <<>> =>
          /\ MineNonce \in NonceValues
          /\ \A n \in NonceValues : timesTested[n] = 1 => n <= MineNonce
    /\ minepc = "assert_failed" =>
          /\ MineNonce = UINT32_MAX
          /\ UINT32_MAX \notin powValid
          /\ timesTested[UINT32_MAX] = 1

\* no nonce is valid: the search has tested every nonce once and has
\* stopped at the assertion with the largest nonce
C14_Witness ==
    /\ minepc = "assert_failed"
    /\ powValid = {}
    /\ MineNonce = UINT32_MAX
    /\ \A n \in NonceValues : timesTested[n] = 1

\* C15: MineGenesisBlock always terminates and never returns: once called
\* it reaches exit (EXIT_SUCCESS), after printing the found nonce, the time,
\* the block hash and the merkle root, or the failed exhaustion assertion;
\* it makes at most 2^32 proof-of-work checks (2^NonceBits in the model), the
\* found nonce is the first valid one, and there is no state in which the
\* function has returned.
C15_MiningTerminates ==
    /\ [](ChecksMade <= NonceLimit)
    /\ [](minepc \in {"idle", "check", "increment", "found", "exited", "assert_failed"})
    /\ [](minepc = "exited" =>
             /\ printed = <<[nNonce |-> MineNonce,
                             nTime |-> mineBlock[1].nTime,
                             hash |-> GetHash(mineBlock[1]),
                             hashMerkleRoot |-> mineBlock[1].hashMerkleRoot]>>
             /\ MineNonce \in powValid
             /\ \A n \in NonceValues : n < MineNonce => n \notin powValid)
    /\ (minepc = "check") ~> MineEnded

\* the search has ended with success at a nonce it had to increment to
C15_Witness ==
    /\ minepc = "exited"
    /\ printed # <<>>
    /\ printed[1].nNonce > 0
    /\ ChecksMade = printed[1].nNonce + 1

(***************************************************************************)
(* Claims about startup and mining, checked under SpecParams.              *)
(***************************************************************************)

\* C16: no call of SelectParams, CreateChainParams, a factory or Params runs
\* the genesis mining: MineGenesisBlock is never entered, no proof-of-work
\* check is made, nothing is printed by it, no call ends in the exit of the
\* search, and the genesis block of every parameter set held still carries
\* the time and the nonce its constructor passed to CreateGenesisBlock.
C16_StartupNeverMines ==
    /\ minepc = "idle"
    /\ mineBlock = <<>>
    /\ ChecksMade = 0
    /\ printed = <<>>
    /\ lastCall.outcome \in {"none", "returned", "aborted", "thrown"}
    /\ \A o \in HeldParams :
          /\ o.genesis[1].nTime = CtorGenesisArgs(o.ctor).nTime
          /\ o.genesis[1].pow.fakeHeader[1].nNonce = CtorGenesisArgs(o.ctor).nNonce

\* SelectParams has installed a parameter set and a factory has returned
\* another one, and the mining has not run
C16_Witness ==
    /\ globalChainParams # <<>>
    /\ lastCall.fn = "RegTest"
    /\ lastCall.outcome = "returned"
    /\ lastCall.obj[1].genesis[1].pow.fakeHeader[1].nNonce = 0
    /\ globalChainParams[1].genesis[1].pow.fakeHeader[1].nNonce # 0
    /\ minepc = "idle"

(***************************************************************************)
(* Further claims about AvgTargetSpacing, checked under SpecAvg.           *)
(***************************************************************************)

\* C19: for the two algorithms with spacings 150 and 150 the function ends
\* with numer = 22500 and denom = 300, neither assertion fails, and it
\* returns 75.
C19_Spacings150Give75 ==
    spacings = <<150, 150>> =>
        /\ avgpc \notin {"abort_denom", "abort_exact"}
        /\ (avgpc \in {"check_denom", "check_exact", "returned"}
              => numer = 22500 /\ denom = 300)
        /\ (AvgTerminal => avgpc = "returned" /\ result = <<75>>)

\* the function has returned for the spacings 150 and 150
C19_Witness ==
    /\ spacings = <<150, 150>>
    /\ avgpc = "returned"
    /\ result = <<75>>

(***************************************************************************)
(* Claims about concurrent calls of AvgTargetSpacing, under SpecAvgConc.   *)
(***************************************************************************)

\* C17: under every interleaving of concurrent invocations with the same
\* parameter set, an invocation that has ended has returned the value, or
\* failed the assertion, that it returns or fails when run alone with the
\* same height; and the parameter set is never written.
C17_ConcurrentCallsIndependent ==
    \A t \in Threads :
        threads[t].pc \in {"returned", "abort_denom", "abort_exact"} =>
            LET alone == AvgTargetSpacingOf(concParams[threads[t].height])
            IN  /\ threads[t].pc = alone.pc
                /\ threads[t].result = alone.value

\* one thread has returned while another, called with a height of other
\* spacings, is in the middle of its loop
C17_Witness ==
    /\ threads[1].pc = "returned"
    /\ threads[2].pc = "loop"
    /\ threads[2].idx = 1
    /\ threads[1].height # threads[2].height
    /\ concParams[threads[1].height] # concParams[threads[2].height]
    /\ threads[1].result = AvgTargetSpacingOf(concParams[threads[1].height]).value

(***************************************************************************)
(* Claims about the lifetime of parameter sets, checked under SpecQueries.  *)
(***************************************************************************)

\* the genesis block the constructor of a parameter set builds
CtorGenesis(ctor) ==
    LET a == CtorGenesisArgs(ctor)
    IN  CreateGenesisBlock(a.nTime, a.nNonce, a.nBits, a.timestamp, a.premineP2sh)

\* a step leaves the installed parameter set as it is, or it is a
\* SelectParams that returned and installed a newly constructed set
InstalledSetKept ==
    \/ globalChainParams' = globalChainParams
    \/ /\ lastCall'.fn = "SelectParams"
       /\ lastCall'.outcome = "returned"
       /\ Len(globalChainParams') = 1
       /\ globalChainParams'[1].net = lastCall'.chain

\* a step leaves the parameter set the caller holds as it is, or drops it
\* for the result of a new call
HeldSetKept ==
    \/ lastCall'.obj = lastCall.obj
    \/ lastCall'.fn # "GetAvailableSnapshotHeights" /\ lastCall' # lastCall

\* C18: every parameter set holds the one genesis block its constructor
\* built and the hash of that block, and no later operation (Params,
\* SelectParams, CreateChainParams, the factories, AvgTargetSpacing,
\* GetNetworkForMagic, GetAvailableSnapshotHeights) changes an existing
\* parameter set: the installed set changes only when SelectParams replaces
\* it with a newly constructed one.
C18_GenesisBuiltOnceNeverChanged ==
    /\ [](\A o \in HeldParams :
             /\ o.genesis = <<CtorGenesis(o.ctor)>>
             /\ o.hashGenesisBlock = GetHash(CtorGenesis(o.ctor)))
    /\ [][InstalledSetKept /\ HeldSetKept]_vars

\* a parameter set is installed, a factory has returned another one, and
\* the last step has queried it for its snapshot heights
C18_Witness ==
    /\ globalChainParams # <<>>
    /\ globalChainParams[1].genesis = <<CtorGenesis(globalChainParams[1].ctor)>>
    /\ lastCall.obj # <<>>
    /\ lastCall.obj[1].genesis = <<CtorGenesis(lastCall.obj[1].ctor)>>
    /\ queried # <<>>
    /\ queried[1].fn = "GetAvailableSnapshotHeights"

(***************************************************************************)
(* Claims about the mainnet genesis block, checked under SpecParams.        *)
(***************************************************************************)

\* the two mainnet constructors
MainnetCtors == {"CMainParams", "kernel::CMainParams"}

\* the genesis block of a parameter set was built from these arguments
GenesisBuiltFrom(o, nTime, nNonce, nBits, timestamp) ==
    /\ o.genesis = <<CreateGenesisBlock(nTime, nNonce, nBits, timestamp,
                                        uint160S(hexPremineAddressMainnet))>>
    /\ o.genesis[1].nTime = nTime
    /\ o.genesis[1].pow.fakeHeader[1].nNonce = nNonce
    /\ o.genesis[1].pow.nBits = nBits

\* a mainnet constructor with a wrong literal has halted at that literal
\* and handed out nothing
MainnetMismatchHalts ==
    LET ctor == ConstructorRun(lastCall)
    IN  (/\ ctor # <<>>
         /\ ctor[1] \in MainnetCtors
         /\ \E kind \in LiteralKinds : <<ctor[1], kind>> \in badLiterals)
        => /\ lastCall.outcome = "aborted"
           /\ lastCall.obj = <<>>
           /\ lastCall.at[1] = ctor[1]
           /\ <<lastCall.at[1], lastCall.at[2]>> \in badLiterals

\* C20 as stated: every mainnet parameter set has the genesis block of
\* CreateGenesisBlock (1531470713, 482087, 0x1e0ffff0, ...), and is accepted
\* only when hash and merkle root equal the mainnet literals.
C20_Original ==
    /\ \A o \in HeldParams :
          o.net = "main"
              => /\ o.genesis # <<>>
                 /\ o.genesis[1].nTime = 1531470713
                 /\ o.genesis[1].pow.fakeHeader[1].nNonce = 482087
                 /\ o.genesis[1].pow.nBits = GenesisBitsMain
                 /\ GenesisMatchesLiterals(o)
    /\ MainnetMismatchHalts

\* C20: the mainnet parameter set of src/unnamed/part_000 builds its genesis
\* block with CreateGenesisBlock (1531470713, 482087, 0x1e0ffff0, its mainnet
\* message, the mainnet premine hash); the one of src/src/chainparams.cpp
\* with CreateGenesisBlock (1644842296, 1060746, 0x1e0ffff0, its own mainnet
\* message, the mainnet premine hash); each is accepted only when the hash
\* and the merkle root of the block equal the literals of its constructor.
C20_MainnetGenesisPerFile ==
    /\ \A o \in HeldParams :
          /\ o.net = "main" => o.ctor \in MainnetCtors /\ GenesisMatchesLiterals(o)
          /\ o.ctor = "kernel::CMainParams"
                => GenesisBuiltFrom(o, 1531470713, 482087, GenesisBitsMain,
                                    pszTimestampMainnetKernel)
          /\ o.ctor = "CMainParams"
                => GenesisBuiltFrom(o, 1644842296, 1060746, GenesisBitsMain,
                                    pszTimestampMainnet)
    /\ MainnetMismatchHalts

\* the mainnet set of src/src/chainparams.cpp is installed and the factory
\* of src/unnamed/part_000 has returned its mainnet set: two mainnet genesis
\* blocks with different times, nonces and hashes
C20_Witness ==
    /\ globalChainParams # <<>>
    /\ globalChainParams[1].ctor = "CMainParams"
    /\ globalChainParams[1].genesis[1].nTime = 1644842296
    /\ lastCall.fn = "Main"
    /\ lastCall.outcome = "returned"
    /\ lastCall.obj[1].ctor = "kernel::CMainParams"
    /\ lastCall.obj[1].genesis[1].nTime = 1531470713
    /\ lastCall.obj[1].genesis[1].pow.fakeHeader[1].nNonce = 482087
    /\ lastCall.obj[1].hashGenesisBlock # globalChainParams[1].hashGenesisBlock

(***************************************************************************)
(* Further claims about AvgTargetSpacing, checked under SpecAvg.            *)
(***************************************************************************)

\* the spacings already processed by the loop
Processed == SubSeq(spacings, 1, idx)

\* C21: numer starts at 1 and denom at 0, and after the first k spacings have
\* been processed in the order of the list, numer is the product of those k
\* spacings and denom is the sum, over each of the k, of the product of the
\* k - 1 others.
C21_LoopInvariant ==
    /\ idx \in 0..Len(spacings)
    /\ (idx = 0 => numer = 1 /\ denom = 0)
    /\ numer = ProductOf(Processed)
    /\ denom = SumOfOthers(Processed)
    /\ (idx >= Len(PowAlgos)
          => /\ numer = spacings[1] * spacings[2] * ProductOf(SubSeq(spacings, 3, idx))
             /\ (idx = Len(PowAlgos) => denom = spacings[2] + spacings[1]))

\* the loop has processed the two algorithms of the code, with different
\* spacings, and has not left the loop yet
C21_Witness ==
    /\ avgpc = "loop"
    /\ Len(spacings) = Len(PowAlgos)
    /\ idx = Len(PowAlgos)
    /\ spacings[1] # spacings[2]
    /\ numer = spacings[1] * spacings[2]
    /\ denom = spacings[1] + spacings[2]

\* the smaller of two integers
Min(a, b) == IF a < b THEN a ELSE b

\* C28: for the two algorithms of the code with strictly positive spacings
\* s1 and s2 the assertion denom > 0 never fails, and a returned result r
\* satisfies 1 <= r < min(s1, s2).
C28_ResultBelowBothSpacings ==
    (Len(spacings) = Len(PowAlgos) /\ spacings[1] > 0 /\ spacings[2] > 0)
        => /\ avgpc # "abort_denom"
           /\ (avgpc \in {"check_denom", "check_exact", "returned", "abort_exact"}
                 => denom > 0)
           /\ (avgpc = "returned"
                 => /\ result # NoValue
                    /\ 1 <= result[1]
                    /\ result[1] < Min(spacings[1], spacings[2]))

\* two different spacings gave a result of at least 2, below both of them
C28_Witness ==
    /\ avgpc = "returned"
    /\ Len(spacings) = Len(PowAlgos)
    /\ spacings[1] > spacings[2]
    /\ result[1] >= 2
    /\ result[1] < spacings[2]

(***************************************************************************)
(* Claims about the consensus parameters of a finished parameter set,      *)
(* checked under SpecCtor.                                                 *)
(***************************************************************************)

\* a testnet constructor has returned
TestnetConstructed ==
    /\ constructed
    /\ building[1] \in {"CTestNetParams", "kernel::CTestNetParams"}

\* C22 as stated: after the testnet parameter set is constructed,
\* consensus.MinBIP9WarningHeight equals consensus.SegwitHeight +
\* consensus.nMinerConfirmationWindow of the finished object, i.e. 2016.
C22_Original ==
    TestnetConstructed
        => /\ built.MinBIP9WarningHeight
                 = built.SegwitHeight + built.nMinerConfirmationWindow
           /\ built.MinBIP9WarningHeight = 2016

\* C22 (what the code does): the sum is taken before nMinerConfirmationWindow
\* is assigned, so the finished testnet set has MinBIP9WarningHeight equal to
\* SegwitHeight plus whatever nMinerConfirmationWindow held before the
\* constructor assigned it, while nMinerConfirmationWindow itself is 2016.
C22_WarningHeightFromUnassignedWindow ==
    TestnetConstructed
        => /\ built.SegwitHeight = 0
           /\ built.nMinerConfirmationWindow = 2016
           /\ built.MinBIP9WarningHeight = uninit.nMinerConfirmationWindow

\* a finished testnet set whose warning height is not 2016
C22_Witness ==
    /\ TestnetConstructed
    /\ built.nMinerConfirmationWindow = 2016
    /\ built.MinBIP9WarningHeight = 0
    /\ uninit.nMinerConfirmationWindow = 0

(***************************************************************************)
(* Claims about the arguments of regtest, checked under SpecParams.        *)
(***************************************************************************)

\* the last call ran the regtest constructor of src/src/chainparams.cpp to
\* its end or to an exception
RegTestCall ==
    /\ lastCall.fn \in {"SelectParams", "CreateChainParams"}
    /\ lastCall.chain = "regtest"
    /\ lastCall.outcome \in {"returned", "thrown"}

\* the regtest parameter set the last call produced: CreateChainParams hands
\* it to its caller, SelectParams installs it
Produced ==
    IF lastCall.fn = "SelectParams" THEN globalChainParams ELSE lastCall.obj

\* the two height arguments and the field each one sets
HeightArgs == {<<"bip16height", "BIP16Height">>, <<"segwitheight", "SegwitHeight">>}

\* heights at and around the ends of the valid range
HeightInputs == {-3, -2, -1, 0, 1, 7, INT_MAX - 1, INT_MAX}

\* the height the claim says is stored for an argument given as <<>> or <<h>>
ExpectedHeight(arg, default) ==
    IF arg = <<>> THEN default
    ELSE IF arg[1] = -1 THEN INT_MAX
    ELSE arg[1]

OutOfRange(arg) == arg # <<>> /\ (arg[1] < -1 \/ arg[1] >= INT_MAX)

\* C23: for -bip16height and -segwitheight on regtest: an argument that is
\* not set keeps the default height; a height h with 0 <= h < INT_MAX is
\* stored unchanged; -1 stores INT_MAX; h < -1 or h >= INT_MAX throws and no
\* regtest parameter set is produced.
C23_ActivationHeights ==
    /\ RegTestCall =>
          \A p \in HeightArgs :
              /\ OutOfRange(gArgs[p[1]])
                    => lastCall.outcome = "thrown" /\ lastCall.obj = <<>>
              /\ lastCall.outcome = "returned"
                    => /\ ~OutOfRange(gArgs[p[1]])
                       /\ Produced[1].ctor = "CRegTestParams"
                       /\ Produced[1].regtest[1][p[2]]
                              = ExpectedHeight(gArgs[p[1]], RegTestDefaults[p[2]])
    /\ \A p \in HeightArgs : \A h \in HeightInputs :
          LET args == [NoArgs EXCEPT ![p[1]] = <<h>>]
              r == UpdateActivationParametersFromArgs(RegTestDefaults, args)
          IN  IF h < -1 \/ h >= INT_MAX
              THEN r.thrown = p[1]
              ELSE /\ r.thrown = "none"
                   /\ r.consensus[p[2]] = ExpectedHeight(<<h>>, 0)
                   /\ \A q \in HeightArgs \ {p} :
                          r.consensus[q[2]] = RegTestDefaults[q[2]]

\* a regtest parameter set was produced with -bip16height=3 stored as 3 and
\* -segwitheight=-1 stored as INT_MAX
C23_Witness ==
    /\ RegTestCall
    /\ lastCall.outcome = "returned"
    /\ gArgs.bip16height = <<3>>
    /\ gArgs.segwitheight = <<-1>>
    /\ Produced[1].regtest[1].BIP16Height = 3
    /\ Produced[1].regtest[1].SegwitHeight = INT_MAX

(***************************************************************************)
(* Claims about -vbparams, checked under SpecVb.                            *)
(***************************************************************************)

\* the integer a number field of the model stands for, if it is one
VbIntOf(field) ==
    CASE field = <<"7">> -> <<7>>
      [] field = <<"-", "1">> -> <<-1>>
      [] OTHER -> <<>>

\* the deployment a name field of the model names, if it names one
VbDeploymentOf(name) ==
    CASE name = <<"t", "e", "s", "t", "d", "u", "m", "m", "y">> -> <<1>>
      [] name = <<"t", "a", "p", "r", "o", "o", "t">> -> <<2>>
      [] OTHER -> <<>>

\* the entry is one the claim says is accepted
VbValid ==
    /\ Len(vbFields) \in {3, 4}
    /\ \A i \in 2..Len(vbFields) : VbIntOf(vbFields[i]) # <<>>
    /\ VbDeploymentOf(vbFields[1]) # <<>>

\* C24: a -vbparams entry with fewer than 3 or more than 4 fields, with a
\* start, end or min_activation_height that is no integer, or with a name of
\* no known deployment throws; a valid entry sets nStartTime, nTimeout and
\* min_activation_height (0 when omitted) of the named deployment and leaves
\* its bit, every other deployment and the activation heights as they were.
C24_VbParamsEntry ==
    vbResult # <<>> =>
        LET r == vbResult[1]
        IN  IF ~VbValid
            THEN r.thrown # "none" /\ r.consensus = vbBefore
            ELSE LET d == VbDeploymentOf(vbFields[1])[1]
                     dep == r.consensus.vDeployments[d]
                 IN  /\ r.thrown = "none"
                     /\ dep.nStartTime = VbIntOf(vbFields[2])[1]
                     /\ dep.nTimeout = VbIntOf(vbFields[3])[1]
                     /\ dep.min_activation_height
                            = IF Len(vbFields) = 4 THEN VbIntOf(vbFields[4])[1] ELSE 0
                     /\ dep.bit = vbBefore.vDeployments[d].bit
                     /\ \A e \in DOMAIN vbBefore.vDeployments \ {d} :
                            r.consensus.vDeployments[e] = vbBefore.vDeployments[e]
                     /\ DOMAIN r.consensus.vDeployments = DOMAIN vbBefore.vDeployments
                     /\ r.consensus.BIP16Height = vbBefore.BIP16Height
                     /\ r.consensus.SegwitHeight = vbBefore.SegwitHeight

\* the entry taproot:7:-1 was read after an earlier entry had given taproot a
\* min_activation_height of 3: the height is back to 0, the bit is still 2
C24_Witness ==
    /\ vbResult # <<>>
    /\ vbFields = <<<<"t", "a", "p", "r", "o", "o", "t">>, <<"7">>, <<"-", "1">>>>
    /\ vbBefore.vDeployments[2].min_activation_height = 3
    /\ vbResult[1].thrown = "none"
    /\ vbResult[1].consensus.vDeployments[2].min_activation_height = 0
    /\ vbResult[1].consensus.vDeployments[2].nStartTime = 7
    /\ vbResult[1].consensus.vDeployments[2].bit = 2

(***************************************************************************)
(* Claims about SelectParams and Params, checked under SpecParams.         *)
(***************************************************************************)

\* the step is a call of fn that ended as outcome
StepOf(fn, outcome) ==
    /\ lastCall'.fn = fn
    /\ lastCall'.outcome = outcome

\* what each step does to the parameter set Params() returns
ParamsFollowsSelectParams ==
    /\ StepOf("SelectParams", "returned")
          => /\ Len(globalChainParams') = 1
             /\ globalChainParams'[1].net = lastCall'.chain
             /\ globalChainParams'[1].ctor = ConstructorRun(lastCall')[1]
    /\ ~StepOf("SelectParams", "returned") => globalChainParams' = globalChainParams
    /\ StepOf("SelectParams", "thrown")
          => \/ lastCall'.chain \notin ChainNames
             \/ /\ lastCall'.chain = "signet"
                /\ lastCall'.at = <<"SigNetParams", "signetchallenge">>
             \/ /\ lastCall'.chain = "regtest"
                /\ lastCall'.at[1] = "UpdateActivationParametersFromArgs"
    /\ lastCall'.fn = "Params"
          => IF globalChainParams = <<>>
             THEN lastCall'.outcome = "aborted" /\ aborted'
             ELSE lastCall'.outcome = "returned" /\ lastCall'.obj = globalChainParams

\* C25: Params() returns the parameter set of the network of the most recent
\* SelectParams call that completed; it fails its assertion while none has
\* completed; a SelectParams call that throws leaves the set unchanged.
\* Nothing is installed at the start, every completed SelectParams installs
\* the set of its network, and no other step changes what is installed.
C25_ParamsIsLastSelected ==
    /\ globalChainParams = <<>>
    /\ [][ParamsFollowsSelectParams]_vars

\* SelectParams("regtest") has thrown for its arguments while the set of
\* another network, installed earlier, is still the one Params() returns
C25_Witness ==
    /\ lastCall.fn = "SelectParams"
    /\ lastCall.chain = "regtest"
    /\ lastCall.outcome = "thrown"
    /\ globalChainParams # <<>>
    /\ globalChainParams[1].net = "main"

\* the network of the base selection and of the installed parameter set
BaseAndParamsAgree ==
    /\ Len(baseNetwork) = Len(globalChainParams)
    /\ globalChainParams # <<>> => baseNetwork = <<globalChainParams[1].net>>

\* C26 as stated: after any sequence of SelectParams calls, including calls
\* that throw, the network selected through SelectBaseParams and the network
\* of the parameter set returned by Params() are the same.
C26_Original == ~aborted => BaseAndParamsAgree

\* what each step does to the two selections
BaseFollowsSelectParams ==
    /\ StepOf("SelectParams", "returned") => BaseAndParamsAgree'
    /\ (StepOf("SelectParams", "thrown") /\ lastCall'.chain \notin ChainNames)
          => baseNetwork' = baseNetwork /\ globalChainParams' = globalChainParams
    /\ (StepOf("SelectParams", "thrown") /\ lastCall'.chain \in ChainNames)
          => baseNetwork' = <<lastCall'.chain>> /\ globalChainParams' = globalChainParams
    /\ lastCall'.fn # "SelectParams" => baseNetwork' = baseNetwork

\* C26 (what the code does): the two selections agree after every
\* SelectParams call that completes, and a call for an unknown chain changes
\* neither; a call for signet or regtest that throws for its arguments has
\* already changed the base selection to the new network and leaves the
\* active parameter set as it was.
C26_BaseChangedBeforeParams ==
    /\ BaseAndParamsAgree
    /\ [][BaseFollowsSelectParams]_vars

\* the main parameter set is active, and SelectParams("regtest") has thrown
\* for its arguments after selecting the base parameters of regtest
C26_Witness ==
    /\ ~aborted
    /\ lastCall.fn = "SelectParams"
    /\ lastCall.outcome = "thrown"
    /\ baseNetwork = <<"regtest">>
    /\ globalChainParams # <<>>
    /\ globalChainParams[1].net = "main"

(***************************************************************************)
(* Further claims about CreateGenesisBlock, checked under SpecGenesis.     *)
(***************************************************************************)

\* C27: for every input the returned block has version 1 and the header
\* fields nBits = 0 and nNonce = 0; the bits and the nonce given are held
\* only by the attached PoW data: the PoW bits and the nonce of the fake
\* header.
C27_HeaderBitsAndNonceZero ==
    \A c \in CallsMade :
        LET block == c[1].block
        IN  /\ block.nVersion = 1
            /\ block.nBits = 0
            /\ block.nNonce = 0
            /\ block.nTime = c[1].args.nTime
            /\ block.pow.nBits = c[1].args.nBits
            /\ Len(block.pow.fakeHeader) = 1
            /\ block.pow.fakeHeader[1].nNonce = c[1].args.nNonce
            /\ block.pow.fakeHeader[1].nBits = 0

\* a block was returned for a nonce and bits that are not 0
C27_Witness ==
    /\ first # NoCall
    /\ first[1].args.nNonce # 0
    /\ first[1].args.nBits # 0
    /\ first[1].block.nNonce = 0
    /\ first[1].block.nBits = 0
    /\ first[1].block.pow.fakeHeader[1].nNonce = first[1].args.nNonce

(***************************************************************************)
(* Claims about GetNetworkForMagic, checked under SpecQueries.             *)
(***************************************************************************)

\* the message start of each network built with default options
DefaultMagic ==
    [main |-> LiteralMagic(<<204, 190, 180, 254>>),
     test |-> LiteralMagic(<<204, 191, 181, 254>>),
     testnet4 |-> LiteralMagic(<<28, 22, 63, 40>>),
     regtest |-> LiteralMagic(<<204, 191, 181, 218>>),
     signet |-> SignetMagic(DefaultSignetChallenge)]

\* GetNetworkForMagic has answered
MagicAnswered == queried # <<>> /\ queried[1].fn = "GetNetworkForMagic"

\* the five parameter sets with the set at position from also at position to
MagicBuildsTied(from, to) == [MagicBuilds EXCEPT ![to] = MagicBuilds[from]]

\* C29: GetNetworkForMagic applied to the message start of one of the five
\* networks built with default options returns that network's chain type;
\* applied to a value equal to none of the five it returns no value; when
\* two networks have equal message starts it returns the first in the order
\* main, testnet, testnet4, regtest, signet.
C29_MagicToNetwork ==
    MagicAnswered =>
        /\ \A net \in DOMAIN DefaultMagic :
              queried[1].message = DefaultMagic[net] => queried[1].value = <<net>>
        /\ (\A net \in DOMAIN DefaultMagic : queried[1].message # DefaultMagic[net])
              => queried[1].value = <<>>
        /\ MagicAnswer(MagicBuildsTied(2, 4), DefaultMagic.test) = <<"test">>
        /\ MagicAnswer(MagicBuildsTied(5, 1), DefaultMagic.signet) = <<"main">>
        /\ MagicAnswer(MagicBuildsTied(4, 5), DefaultMagic.regtest) = <<"regtest">>

\* asked about the message start of regtest, GetNetworkForMagic has answered
\* regtest
C29_Witness ==
    /\ MagicAnswered
    /\ queried[1].message = LiteralMagic(<<204, 191, 181, 218>>)
    /\ queried[1].value = <<"regtest">>

(***************************************************************************)
(* Further claims about the consensus parameters of a finished parameter   *)
(* set, checked under SpecCtor.                                            *)
(***************************************************************************)

\* C30 as stated: every network parameter set (main, testnet, testnet4,
\* signet, regtest), once constructed, has a consensus rules object assigned
\* and nAuxpowChainId equal to 1829.
C30_Original ==
    constructed
        => /\ CtorNetwork(building[1])
                  \in {"main", "test", "testnet4", "signet", "regtest"}
           /\ RulesQueryable(built)
           /\ built.nAuxpowChainId = 1829

\* C30 (what the code does): the finished parameter sets of main, testnet,
\* signet and regtest have a rules object and nAuxpowChainId 1829; the
\* constructor of testnet4 assigns neither, so its rules is null and its
\* nAuxpowChainId is what the memory held before.
C30_RulesAndChainIdExceptTestnet4 ==
    constructed
        => IF CtorNetwork(building[1]) = "testnet4"
           THEN /\ ~RulesQueryable(built)
                /\ built.nAuxpowChainId = uninit.nAuxpowChainId
           ELSE /\ RulesQueryable(built)
                /\ built.rules[1]
                      = CASE CtorNetwork(building[1]) = "main" -> "MainNetConsensus"
                          [] CtorNetwork(building[1]) = "regtest" -> "RegTestConsensus"
                          [] OTHER -> "TestNetConsensus"
                /\ built.nAuxpowChainId = 1829

\* a finished testnet4 parameter set without rules object whose
\* nAuxpowChainId is not 1829
C30_Witness ==
    /\ constructed
    /\ building = <<"kernel::CTestNet4Params">>
    /\ built.rules = <<>>
    /\ built.nAuxpowChainId # 1829
    /\ built.nMinerConfirmationWindow = 2016

====
